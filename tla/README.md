# Verification of the AliceTG bot

TLA+ models of the bot's stateful parts, TLC configurations that check them on
small instances, and TLAPS proofs of what matters most for instances of any
size. Everything is translated from the Python source; docs and tests only
provide the claims that the `violation` runs compare with the code.

## 1. The system

One asyncio process (`app/main.py`) serves an aiohttp application (webhooks of
Telegram, Alice and Home Assistant, the planning API) and an aiogram
dispatcher. Coroutines interleave at every `await`; database transactions do
not contain awaits, so each is atomic for the coroutines, and `BEGIN IMMEDIATE`
makes it atomic for other processes too.

| component | state | operations | hard part | what makes it correct |
|---|---|---|---|---|
| durable reminder scheduler (`planning/scheduler.py`) | none of its own but the copies of rows it works with | poll, reconcile, claim, snapshot policy, try channels, commit, suppress | a provider call of unknown length between two transactions, leases that expire, restarts | no delivery without acceptance, no send after closing, bounded attempts, every due reminder settles |
| planning repository (`planning/repositories.py`) | SQLite: reminders, outbox, delivery_attempts, tasks, events, projects, idempotency keys | create, update, cancel, complete, retry; lease-fenced writes | stale versions and leases, two processes | reminder and job agree, every change advances the version |
| planning database (`planning/db.py`, `migrations.py`) | connection, savepoint depth, schema version | transaction, migrate, online backup | nested transactions, a failure inside one | all or nothing |
| planning API (`planning/api/`) | idempotency rows | mutate, provider mutations | a provider write between claim and stored response | one key, one effect, one answer |
| calendar provider and cache (`planning/providers/`) | cached calendars, events, tombstones, source state | refresh, reconcile after a write | a refresh that overlaps a write | a refresh in which nothing changes makes the copy exact, whatever older data it overwrote before |
| Telegram actions (`planning/telegram_actions.py`) | action tokens | issue, consume, clean up | a callback delivered twice | a token acts at most once, and only with its change |
| legacy import and adapter (`planning/legacy_import.py`) | mappings, marker, settings file | preflight, import, gate of a start, list, fire, cancel | a file that changes between import and cutover | nothing is sent twice or lost |
| backup (`planning/backup.py`, `operations.py`) | packages, a sidecar file with the outcomes | snapshot, verify, retain | two commands at a time, a failure between steps | retention leaves enough, a reported success has its package |
| legacy reminder store and workflow (`services/reminder_store.py`, `workflows/reminders.py`) | a JSON file and its copy in memory, one task per reminder | create, cancel, fire, restore | a send between read and mark | a cancelled reminder is silent |
| coffee alerts (`services/coffee_alerts.py`) with `services/app_state.py` | cycle, sent flags, two tasks | on, off, reschedule, send with retries, restore | handlers that await in the middle | one alert per cycle and channel |
| coffee timing policy (`services/coffee_timing_policy.py`) | cached pair of two HA helpers | refresh, patch with rollback, migrate | two writes that are not atomic | the published pair existed |
| kettle shortcut (`services/kettle_shortcut.py`) | none | boil, stop | dispatch whose outcome is unknown | confirmed means done |
| PushWard (`services/pushward*.py`) | the client's view of the activity, six kinds of tasks | start, update, stop, end, delete | tasks that cancel each other while their requests travel | the phone shows what the machine does |
| order workflows (`workflows/coffee.py`, `tea.py`, `water.py`) | drafts, active messages, HA wait flags | dialogue steps by voice and buttons | duplicate and late answers | an order is finished once |
| Alice surface and parser (`planning/alice.py`, `parser/`) | pending confirmations | parse, confirm | text understanding | what was confirmed is created |
| handlers, web, keyboards, messages, configuration | none | decode, call, render | none | not modelled |

`PROJECT.json` lists every component with its status, and under `hazards` the
places where a test would hardly reach.

How they interact: API, Telegram, Alice and the importer change reminders in
transactions of the repository; the scheduler polls the same tables and calls
the transports (`planning/delivery.py`); health and backup read the tables.
Home Assistant sends coffee and kettle events to the web routes, which call the
services; the services call Home Assistant back over REST.

## 2. Plan

Done:

1. **ReminderDelivery**: scheduler, outbox and requests; the core of the
   system, since a lost or repeated reminder is what the program must avoid.
   **ReminderDeliveryTimely**: liveness on a machine that keeps up.
   **ReminderDeliveryProofs**: types, closed reminders, versions, settlement,
   silence, acceptances, duplicates and caps.
2. **CalendarCache**: the copy of the owner's calendars and its refresh;
   **ProviderMutation** extends it by idempotency keys and the writes of the
   API, so that refreshes, writes and other devices interleave.
   **ProviderMutationProofs**: the types of both, one effect and one true answer
   per key, no lost update, versions, tombstones and quiet refreshes.
3. **CoffeeTimingPolicy** and **CoffeeAlerts** with the application state.
   **CoffeeTimingProofs**: types and the answers to patches.
   **CoffeeAlertsProofs**: types and all safety properties of the alerts.
4. **ReminderCutover**: JSON store, timers, import, gate and restarts;
   **ReminderCutoverProofs**: all its properties.
5. **PlanningStore**, the abstract store of planned objects, and
   **PlanningActions**, the transactions of the API, of Telegram and of the
   services, which implement it; **PlanningActionsProofs**: its properties and
   the refinement.
6. **PlanningBackup**: overlapping commands, retention and the sidecar file;
   **PlanningBackupProofs**: all its properties.
7. **PushWardMirror**: activity and widget; **PushWardMirrorProofs**: types and
   `CleanupMeansOff`.

Every safety and action property of a run that passes is stated by a theorem;
section 6 says under which hypotheses, and what stays with TLC. What is left is
breadth: the parts listed under "Not modelled".

## 3. The modules

### ReminderDelivery

State: `rem` (table reminders), `job` (table outbox; the dedupe key allows one
job per reminder), `attempts` (table delivery_attempts), `wk[w]` (local
variables of a scheduler's run: `now` is `selected_now`, `window`, `cycle`,
`policy`, `terminal` are those of the claimed copy of the job, `todo` the rest
of `pending_plan`, `outcome` and `ordinal` the `outcomes` dictionary,
`version` the version of the reminder last read), `clock`.
History: `accepted` counts what the providers took, `unheard` how many of these
messages they took without the bot hearing so, `lostLeases` the leases that
ended while their holder was at work. None is read by any action.

| action | code |
|---|---|
| `CreateReminder`, `PatchReminder`, `CloseReminder`, `ManualRetry` | `create_reminder`, `update_reminder` through the API, `manual_retry_reminder` |
| `ImportReminder`, `MarkFired` | `legacy_import.py` |
| `StartRun` | `run_once` up to the first claim: the whole `_reconcile` transaction |
| `ClaimJob`, `EndRun` | `claim_outbox`, end of the batch |
| `LoadReminder`, `SnapshotPolicy`, `SettingsFailure`, `PlanChannels` | `_process_job` up to the channel loop |
| `BeginAttempt`, `Recheck`, `ProviderAnswers`, `FinishAttempt`, `RecordTerminal`, `StopInLoop` | the loop and `_attempt_channel` |
| `AnswerLost` | inside a call of `transport.send`: the provider takes the message and no answer says so (`delivery.py:104-114,137-143`) |
| `Evaluate`, `Commit` | the decision and `commit_reminder_delivery` |
| `Suppress` | `_suppress_job` |
| `Crash` | the process ends, or `close` cancels the task |

Granularity: every transaction is an action of its own and every read that
decides something belongs to the action that follows from it. In one process
fewer interleavings exist (no other coroutine runs between two calls without an
await); the extra ones are those of a second process on the same file, which
the leases are there for. Safety properties therefore cover both.

Data left out: titles, notes, audit rows, error texts, chat ids. Time is
abstract: ticks, with `RetryDelay[k]` the set of delays after attempt k (base
delay, `retry_after`, jitter). `Settings` is the set of policies the owner may
have chosen when a cycle starts. Tokens are reused when no row and no worker
holds them, which is what makes `uuid4` finite.

A call of a provider begins with `Recheck` and ends with `ProviderAnswers` or a
crash. In between `AnswerLost` may happen any number of times: a timeout,
`telegram_no_receipt` and the client's own repetition of a request all look to the
scheduler like a failure that may be retried. A message that is taken only
after the caller gave up is counted from the call that sent it, which changes
when it is counted, not how many there are.

Details of the code that the model shows and that are easy to miss:
an imported pending reminder has no job until the first reconciliation; a
delivered reminder that gets a new due time is never delivered again; the
leases of later jobs in a batch are computed from the time the run started;
after `_attempt_channel` suppressed a job the channel loop goes on without it.

### ReminderDeliveryTimely

The same actions under the assumption that a tick of the clock is not shorter
than the polling interval: time passes only when every worker has run or waits
for a provider no longer than `CallLimit`.

### CalendarCache

State: `collections` and `server` are the calendars and resources at iCloud,
which other devices change (`OthersWrite`, `OthersDelete`, `OthersShare`);
`calRow`, `ev`, `source` are the tables provider_calendars, calendar_events with
provider_event_cache, and provider_sources; `rf` holds the local variables of
the one refresh under way (`_refresh_lock`). An event is identified by its
resource and by whether it recurs (`OccurrenceOf`, from `_occurrence_key`), so
that a resource that becomes a series changes its identity as in the code.

| action | code |
|---|---|
| `BeginRefresh`, `ListCalendars` | `_refresh_unlocked` up to the calendar list |
| `FetchEvents`, `AskResources`, `VerifyResources` | per calendar: the time-range report, `_resource_refs_for_calendar`, the multiget |
| `CommitRefresh` | the transaction of `_commit_success`: observations, two-strike deletion, disappeared calendars |
| `RefreshFails` | `_record_failure`, by a fault or because a listed calendar is gone when it is read |
| `Crash`, `Tick` | the end of the process or of the loop; time |

`Report` says what an answer carries: only an answer with an ETag makes a plain
event writable. Contents in `Hidden` lie outside the window of the report; an
event moves in or out of the window when another device moves it. Left out:
parsing, limits on sizes, sub-occurrences of one series (one instance key stands
for them), clocks that run backwards, and a provider that is disabled or not
configured (both are settings of the process).

History: `told` what the last ended refresh was told is missing, `calm` whether
anything changed since the refresh began.

### ProviderMutation

EXTENDS CalendarCache: every action of it may happen between two steps of a
write. State: `keyRow` (table idempotency_keys), `hs[h]` (local variables of
a request handler: `etag` is that of the row the preflight read, `primed` the event that
`prepare_write_state` puts into the provider), `flight` (writes whose sender has
stopped waiting; a write may also be applied and answered in a way that cannot be
understood, which is stored as a definitive `payload_invalid`). History: `effects`
and `heard` per key.

| action | code |
|---|---|
| `Send` | a client calls a route, for the first time or again under its key |
| `Admit` | `_lookup_provider_idempotency`, write gate, preflight |
| `Claim` | `_claim_provider_idempotency`, then the read of `prepare_provider_write` |
| `Prepare`, `CheckCurrent` | `prepare_write_state`, the checks before the write, `_current_simple_uid` |
| `Write`, `Arrive` | the PUT, DELETE or MKCALENDAR with its precondition; its effect may come after the sender gave up |
| `Readback`, `Finish` | `_readback_event` or the confirmation by absence; the transaction that reconciles the cache and stores the answer |
| `Restart` | the process ends: rows and sent writes stay |

Every refusal goes through `Store`, as `_persist_provider_failure` does: an
answer once stored is not replaced. `Admit` and `Claim` are two steps although one
process runs no other coroutine between them: two processes may.

### CoffeeTimingPolicy

State: `helper` (the two numbers in Home Assistant, each with the time it was
changed), `marker` (the initialisation marker), `late` (writes that arrive after
their sender gave up), `policy` and `failing` (the cached policy of
`CoffeeTimingPolicyService`), `lock` (`_mutation_lock`), `lastRevision` (of the
refresher), `timers` (the policy the alert timers were made with), `ac[a]` (the
local variables of each actor: the refresh loop, the script, the routes),
`calls`, `edits`, `faults` (what is left of the instance's budget). An actor
stands still between any two requests to Home Assistant. History: `won`,
`strayed`, `disturbed`.

| action | code |
|---|---|
| `Refresh`, `Poll` with `ReadWarmup`, `PairRead`, `AskMarker`, `EndRefresh`, `TakeOver` | `refresh` by a route and by `CoffeeTimingPolicyRefresher._run` |
| `PatchMinutes` with `Lock`, `Decide`, `SetHelper`, `Verify`, `StartRollback`, `Confirm`, `VerifyRollback`, `MarkUnknown` | `patch_minutes` and its roll-back |
| `TelegramSet`, `MoveOn` | the two setters of Telegram |
| `Migrate`, `Plan`, `Settle`, `TurnOnMarker`, `ConfirmMarker` | the migration script |
| `OthersSet`, `Arrive`, `CallFails`, `Restart` | the owner in Home Assistant, a late write, a lost answer, the end of the process |

A number is the member of a small set `Minutes`; what the code refuses to read
is a fault of the read. `Legacies` are the values an older release may have left
in the settings, which the migration finds or does not. `Budgets` is a set of
bounds: one instance has a client with trouble, another two clients without.

### CoffeeAlerts

State: `ha` (the switch and the helper with the last activation), `inbox`
(events on their way), `mem` and `disk` (`AppStateStore._state` and the file),
`line` (`_lock`), `orphans` (saves of cancelled tasks whose
threads go on), `tasks` (`_tasks`), `tk` (the alert tasks), `hd` (the handlers),
`timing` (whether the policy is known).

| action | code |
|---|---|
| `Hear`, `ReadSwitch`, `ReadHelper`, `Enter`, `SaveDone` | `handle_state` and `restore`: ask Home Assistant, take the lock, change memory, save, cancel and schedule |
| `Change`, `NewPolicy` | the settings of the API and of Telegram; `reschedule_active_alerts` |
| `Wake`, `Accepted`, `Answered`, `Mark`, `Saved`, `DropTask` | `_wait_and_send`, one channel after the other, with its attempts; `_drop_task` |
| `AskForAlert`, `LegacyStep` | the legacy alert routes, which adopt a cycle with the time of the switch and send on their own |
| `ReadFails`, `SendFails`, `SaveBreaks`, `SaveFails`, `LegacyFails`, `EventLost`, `PolicyLost`, `Restart` | faults |
| `OrphanWrites` | the thread of a cancelled save ends |

`line` is the queue of the lock, kept as an order: `<<x, y>>` when x asked for the
lock before y, and `<<x, x>>` for each x that waits for it or has it. `Join` is
an `async with self._lock` that begins, `Holds` what lets it in (asyncio serves
waiters in turn), `Leave` its end or the cancellation of who waits. `Renew` is `_cancel_tasks` with `_schedule_active_alerts`: one step, since
neither awaits (`start_or_restore` of PushWard does not suspend). The automation
that writes the helper is not in the repository; the model lets it write with
the switch. History: `told` what was accepted, `lost` what the state does not
remember of it or may not (a mark that is refused, or that comes in another cycle
than the message, remembers nothing of it), `excused` the alerts whose timers the code gave up, `behind`
whether a save failed. No action reads them.

### ReminderCutover

The reminders of the JSON store, their import, and the start that makes the
planning database their store. State: `file` (reminders.json: records, channels
switched on, whether the settings keys are those the importer knows), `mode`
(which store the process uses, or that it is down), `mem` and `saving`
(`ReminderStore._reminders`, `_settings`; the operation that holds `_lock` while
its save runs in a thread), `task` and `left` (`ReminderWorkflow._tasks`: where
each timer stands, channels still to try), `rows` and `marker` (reminders and
completed import of the database), `reading` (the file an import has read before
its transaction). History: `sent` (messages the channels took), `unheard` (how
many of them without an answer that says so), `accepted`, `cancelled`, `excused`
(deliveries the program could not record), `idle` (timers that ended without a
recorded delivery).

| action | code |
|---|---|
| `Create`, `CancelPending`, `CancelOther`, `Toggle` | the store's operations up to the save, from Telegram and voice |
| `SaveSucceeds`, `SaveFails` | the thread replaces the file or raises; what the caller does next (`AfterSave`) |
| `Fire`, `SendTo`, `MarkFired` | `ReminderWorkflow._wait_and_fire`: read again, channel after channel, mark |
| `AnswerLost` | a channel takes the message and its answer is lost, while a timer, the scheduler of Planning or the release before is sending |
| `TimerBreaks` | `_wait_and_fire` catches an exception no channel expects and drops the timer |
| `ReadSource`, `Import` | preflight and the one transaction of the import |
| `StartLegacy`, `StartPlanning`, `Stop`, `Crash` | `main.py`: `build_reminder_store`, `require_cutover_ready`, `restore_pending` |
| `PlanningCreate`, `PlanningCancel`, `PlanningDeliver`, `PlanningToggle` | the adapter and the settings store after the cutover |
| `PriorRelease` | the release before this one on the same file, while this one is down |

A delivery after the cutover is one step here; how it happens is the subject of
ReminderDelivery. Times and texts are left out; a record is its status with the
time stamps it carries, because the preflight refuses one whose stamps do not
fit its status.

### PlanningBackup

State: `dir` (packages and temporary files), `state` (the sidecar file of
`operations.py`), `live` (the database: its schema, and whether its rows are
sound), `key`, `pr[p]` (the local variables of a command, a process of its own).
History: `made`, `last`, `raced`.

| action | code |
|---|---|
| `StartBackup`, `TakeSnapshot`, `Seal`, `Refused`, `Finalize` | `backup`: attempt noted, online copy, inspection, encryption to a temporary file, rename |
| `ListPackages`, `Unlink`, `Retained` | `_enforce_retention` and the success noted |
| `RunFails`, `Crash` | an exception with its clean-up; the end of the process, which leaves the temporary file |
| `StartVerify`, `Verify` | decryption with the key of the process, isolated restore, semantic checks |
| `LoadState`, `ReplaceState`, `ReplaceFails` | `PlanningOperationsStateStore.update` |
| `Tick`, `Migrate`, `ChangeKey`, `Spoil` | time, a migration, a new key, impossible rows and damaged files |

`BackupStatus` is what the health report makes of the sidecar. Encryption is the
comparison of keys, and the content of a database is sound, impossible or
corrupt. Packages of one second are listed by their names, which end in the
schema and in random digits: the constant `Place` is that order of all names,
any one-to-one map into the numbers. It has to be one order for all listings; if
every listing broke ties as it liked, two runs could take each other's packages
and more than one would be missing. `RunFails` covers a copy, an encryption or a
rename that raises; `RetentionFails` a removal, with the package already made.

### PlanningStore and PlanningActions

PlanningStore says what somebody who asks for a change may rely on: `version`
of every object, `effect` of every request (named by its key or token), and what
those who asked `heard`; a request takes effect once and entirely (`Carry`),
others interfere, whoever is told of a success is told its effect (`Tell`).

PlanningActions has the transactions. State: `disk` (the committed tables:
rows, audit trail, keys, tokens), `work` and `owner` (the tables as the open
transaction sees them, and whose it is), `job[h]` (local variables of a handler),
`presses` (the rate limiter), `heard`.

| action | code |
|---|---|
| `Ask`, `Press`, `OpenList` | a request under a key, a press of a button, a list |
| `Begin`, `Commit`, `Raise`, `Crash` | `PlanningDatabase.transaction`; the journal undoes what was not committed |
| `Check` | `claim_idempotency`; the checks of `consume` |
| `Change`, `Audit` | the repository operation with its version check; `AuditWriter.record` |
| `Seal` | `store_idempotency_response`; `consumed_at` |
| `ReadList`, `Issue`, `ShowList` | `reminders_view`, `tasks_view` and their tokens, each in a transaction that removes expired ones |
| `Answer`, `LoseAnswer` | the response, or a connection that is gone |
| `Settle`, `ServeProject` | the scheduler and the project service, in transactions of their own |

The refinement mapping: `version` is the version of the committed row, `effect`
of a request are the changes the committed audit trail ascribes to it, `heard`
is what the answers said. A commit with a change is `Carry`, an answer `Tell`,
`Settle` and `ServeProject` are `Interfere`; all else stutters. A row is its
state and version: an update of any other field moves the version and nothing
the properties see.

### PushWardMirror

State: `act`, `wid` (what PushWard shows), `client` (`_cycle_id`,
`_activity_active`, `_degraded`), `task` (the loop, the cleanup, the deleter, the
one-shots of alerts, the widget's loop and its one-shots: where each stands and
which request it waits for), `strays` (requests of tasks that were cancelled or
died, which may still be served), `hd`, `line`, `mem`, `disk`, `ha`, `inbox` as
in CoffeeAlerts, `kick` (a reschedule that will start), `policy` (the timings are
known). History: `excused`, `late`.

| action | code |
|---|---|
| `LoopTurns`, `LoopHears` | `_run_updates`, `_update_from_state` |
| `CleanupBegins`, `CleanupGoesOn`, `DeleterGoesOn` | `_run_off_cleanup`, `_delete_activity_later` |
| `MarkAlert`, `MarkGoesOn` | `mark_warmed_up`, `mark_long_running` and their one-shot |
| `WidgetTurns` | `_run_loop`, `_safe_update` with PATCH, then POST |
| `Hear`, `Asks`, `AsksInVain`, `Enter`, `Saved`, `SaveFails` | `handle_state` and `restore` of the alert service, which start and stop both |
| `Reschedule`, `Kicked` | `reschedule_active_alerts` |
| `Serve`, `CallFails`, `StrayServed`, `EndedGoes` | PushWard: a request served, refused or unanswered, served late; `ended_ttl` |
| `Switch`, `Restart` | the machine; the end of the process and its restore |

`excused` names why the activity may be left behind for good: a start that
overtook an off (`overtaken`), an activity the client does not count as its own
(`unseen`, `late creation`, `restart`), a save that failed (`unsaved`), one that
is gone and, over Home Assistant, never missed (`gone`), a deletion that failed
(`undeleted`); section 5 says how each happens. A reason is dropped when the
code catches up.

### MC modules

Only constants: policies, the backoff, budgets, populations, symmetry sets.

## 4. What the passing runs check

| run | bounds | shows |
|---|---|---|
| `MCDelivery_TwoWorkers` | 1 reminder, 2 workers, 3 tokens, lease of 1 tick in a horizon of 2, 1 request and 1 fault (a lost answer, or a crash until tick 1) | fencing: reminder and job settle together, nothing starts after a close, every duplicate is owed to a lost answer or a lost lease |
| `MCDelivery_Crashes` | 1 fault, 1 request of any kind, policies with two required, optional, missing and no channels, 2 attempts, horizon 3 | every request at every step of a delivery; a closed reminder has no live job, a delivery was accepted, a settled one stays settled; caps and windows across restarts |
| `MCDelivery_Settles` | horizon 10, 1 crash, 2 requests until tick 2, imports and legacy fires | liveness: every due reminder settles; every change moves the version |
| `MCCalendar_Refresh` | 2 calendars, 1 resource, 3 changes, 1 fault, contents in and out of the window, plain and recurring | two strikes before a tombstone; liveness: the copy becomes and stays what the server shows |
| `MCMutation_Event` | 1 key, 2 handlers, 2 requests of any of the five writes, 1 foreign change, 1 fault | a true answer, one effect and one answer per key, no lost update; a version tells one state of an event from every other; a refresh in which nothing changes makes the copy exact |
| `MCCoffee_Timing` | 1 client call with 1 edit of the owner and 1 fault, or with 2 faults, or 2 calls with neither; values of an old release or none; the loop | what a patch answers is true, one success per revision; liveness: policy and timers become what Home Assistant holds |
| `MCCoffee_Alerts` | 1 alert on 2 channels, 2 attempts, 2 handlers, 2 tasks, 2 changes of the switch, 1 edit, 1 fault, horizon 3 | repeats, early alerts and wrong marks need a named cause, no timer strays, memory and file agree; liveness: every alert of a running cycle gets out |
| `MCCutover_Import` | 2 reminders, 2 channels, 3 starts, 2 requests, 1 fault, with or without an earlier file | a cancelled reminder is silent, a repeat beyond the lost answers needs a delivery that could not be recorded, nothing accepted is lost, pending reminders have timers |
| `MCBackup_Retention` | 2 commands, 2 packages to keep, 0 to 2 earlier ones, 2 runs, 2 faults or changes by the operator, 2 keys, 2 schemas, horizon 2 | enough packages survive, a recorded success has its package, the outcome shown is the last one |
| `MCActions_Transactions` | 2 handlers, 1 key, 2 tokens, 2 objects of four kinds of pairs, 3 requests, 1 foreign change, 1 fault | key or token, row and audit row change together, from the version seen; refinement of PlanningStore |
| `MCPushWard_Mirror` | 2 handlers, 1 alert, 2 one-shots; 3 changes of the switch and a fault, or 2 changes and a client's request, over PushWard or Home Assistant; activity or widget | no cleanup in a running cycle; liveness: activity and widget show what the bot holds |

Why the bounds are enough: the reminder protocol has no interaction between different
reminders but the order of claims and the batch; a
lease is lost between two workers or between a worker and its successor, which
two workers or one crash show; the crash run has one worker and every kind of policy, the
run with two workers one policy; caps of 2 attempts and a window of 3 ticks
are reached in the run that checks them. A property that is proved for every
instance is checked in one run only. In the calendar runs a tombstone
takes two refreshes after a change, a wrong one a change and a fault, and an
overlap of refresh and write one of each; strikes, statuses and versions are per
event, calendars interact only in the list of a refresh, and two handlers show
what two requests can do to each other under one key; keys share nothing but the
events. The two alerts of the coffee machine have separate tasks and flags and meet only in the
lock and in the lines that cancel and schedule both, which the one alert of
`MCCoffee_Alerts` passes through as well; a stale task needs two cycles, two
handlers are the fewest that overtake each other, and a helper holds a value of
the first cycle, of the second or none.

What a run does not reach: in `MCMutation_Event` every resource name is taken, so
the creation of an event ends before it writes (that of a calendar does write);
`MCCoffee_Alerts` has two changes of the switch, hence few courses with a second
activation; `MCCutover_Import` has one fault, so no lost answer together with a
crash. A larger instance would not end in minutes. For these cases the
theorems of section 6 speak, which hold for every value of the constants.

Cutover: reminders meet only in the lock of the store and in the set the import
takes, which two show; a file older than the rows takes three starts. Backups:
two commands are the fewest that list the same packages, two packages to keep
the fewest of which one can be lost, and packages left by earlier runs stand for
runs that have ended. Actions: two handlers show what a second request sees of
the first; one key is used again for the same or for another request, one token
is pressed twice and another competes for the same object, and the pairs of
objects hold every domain. The activity and the widget of PushWard share no
state but the machine's, so each configuration has one of them; on, off and on
again is the shortest course in which a cleanup can meet the cycle after it.

`MaxTime`, `MaxEdits`, `MaxFaults`, `Dues`, `Budgets` and the like are bounds of the instances; no
property mentions them. Deadlock is not checked because the bounds let every
instance end. Symmetry (tokens, workers, handlers, keys, commands) is used where
no liveness is checked; `KeepsPromise` is a safety property.

Fairness. `MCDelivery_Settles`: weak fairness of each worker's steps, because
the event loop resumes every task that can run and `transport.send` ends by the
timeouts of its clients; weak fairness of the tick, because time passes. Crashes
and requests are not fair and stop after `LastTrouble`, so that there is a
suffix in which the system is left alone. In the calendar runs weak fairness of
`RefreshStep` stands for the refresh loop, which starts the next refresh after
the one before, and for the timeouts of the transport, by which each of its
calls ends. What the writes of the bot leave in the copy is checked as safety
(`QuietRefreshIsExact`), which asks nothing of the handlers. Changes and faults are bounded, so there is again a quiet suffix.
In the coffee and PushWard runs weak fairness of the steps of loops, of tasks and of
handlers stands for the event loop and for the timeouts of the clients, by which
every request ends; the refresh loop always polls again; Home Assistant delivers
the events that are not lost, the clock advances, a reschedule that was created
starts. Nothing is assumed of requests of cancelled tasks (`StrayServed`), of
`ended_ttl`, of the machine or of faults. The other runs check safety only.

## 5. What the violation run shows

`MCCutover_Marker`: docs/PLANNING_REMINDER_CUTOVER_A2.md:89-91 says that startup
"requires migration 002 and a matching completed import marker". The code also
compares the imported rows, as they are now, with the JSON file
(`legacy_import.py:637`). An imported reminder that was delivered or cancelled
after the cutover no longer matches, and the next start is refused until the
cutover is switched off.

Seen while modelling, and left without a run.

Reminders and calendars:

- A PATCH that makes a reminder due earlier leaves `available_at` of its queued
  job; reconciliation does not touch queued jobs (`scheduler.py:343`), and the
  reminder goes out at the old time. docs/PLANNING_DURABLE_SCHEDULER_A3.md:107-109
  says "startup reconciliation also makes expired and overdue work recoverable
  immediately rather than waiting for a retry interval".
- Every refresh after the first verifies all cached resources
  (`providers/cache.py:440`), by a multiget whose answers carry no ETag on
  (`icloud.py:547`); the verified copies replace the fetched ones, and every
  plain event is read-only from then on. docs/PLANNING_ICLOUD_CALENDAR_PROVIDER.md:155-157
  speaks of "cached resources that are absent from the new time-range response",
  and :202-203 keeps read-only what recurs or carries fields outside the safe shape.
- A send in flight while the reminder is put off counts as its delivery at the
  new time (`repositories.py:2166`; docs/PLANNING_DURABLE_SCHEDULER_A3.md:111-112).
- An update that was applied and whose readback is not a single event is
  answered as a definitive refusal (`icloud.py:891`;
  docs/PLANNING_ICLOUD_CALENDAR_PROVIDER.md:200-202). `AnswersAreTrue` excepts it;
  the runs have only plain events where the bot writes, so this comes from
  reading the code, not from a run.
- A requeued job starts a new cycle but keeps the terminal channels of the old
  one (`repositories.py:1625`), and has a new budget inside the same window.
- `mark_fired` leaves a delivered reminder pending, which `backup.py:626` counts
  as impossible.
- A refresh that fetched before a confirmed deletion and commits after it brings
  the event back until two more refreshes remove it; `QuietRefreshIsExact`
  excepts an event that waits for the second of them.
- Only 512 resources of a calendar are verified.
- Creating a calendar marks the source current with the time of the creation
  (`cache.py:345-352`), although nothing was listed: whatever failed before, the
  copy is then called current until it is `stale_after_seconds` older. That
  `current` means a recent complete refresh is therefore not a property of this code.
- A write that was applied and whose own answer cannot be understood is stored as
  the definitive refusal `payload_invalid` (`icloud.py:205-211`,
  `service.py:1324-1329`); `AnswersAreTrue` excepts this answer.
- A message whose answer is lost is sent again in the same cycle, by the retry of
  the scheduler (`scheduler.py:723-724`), or after the restart of the JSON store, which
  still holds the reminder as pending. Docs and code accept it; the properties about
  duplicates count such messages apart (`unheard`).

Cutover:

- `ReminderStore._save` writes eight settings keys, the importer accepts four:
  after any save of this release the preflight blocks with `settings_invalid`,
  and only a file of the release before, or one never saved, can be imported.
- `mark_fired` overwrites a cancellation that came while the messages went out;
  the record then carries both time stamps, and the preflight blocks it.

Backups:

- Three backups of one second share a time stamp, and their order is that of
  random digits: retention may remove the newest.
- With `retention_count` 1 two overlapping runs can remove each other's package
  (`PackagesSurvive` counts what is sure).
- The package of a slow run may be removed by another before it is reported.
- The sidecar's lock is one of each process: of two updates one can be lost. An
  `OSError` when the success is noted reports a failure although the package is
  there (`raced` names these cases).
- The schema in a package's name is read before the snapshot.
- A `PlanningError` from the migrations or from a missing cryptography library
  leaves `verify` without an outcome in the sidecar (`backup.py:414-419`, `VerifyEscapes`).

Planning actions:

- `PlanningDatabase.transaction` resets its depth only after `commit`: when the
  commit itself raises, later transactions of that connection run as savepoints
  of a transaction nobody commits. The model rolls back.
- The verdict "in progress" cannot be reached for local changes, since claim and
  response are one transaction.
- A consumed token that has expired and was cleaned up is "unknown".
- `scheduler.py:304-331` moves a version without an audit row; no reachable
  state has the job it repairs.

PushWard (each is a reason in `excused`, or `late` for the widget):

- On and off within the first create request: the creation is cancelled on its
  way, `_activity_active` is false, and the end is skipped although the activity
  may exist (README.md:99-100 of the repository says it is ended).
- `start_or_restore` between `stop` and `mark_coffee_machine_off` cancels the
  cleanup; the loop ends when it sees the machine off, and nobody ends the activity.
- After a restart with the machine off meanwhile, the cleanup shows "off" and
  never ends what an earlier process created.
- A PATCH of a cancelled widget task that is applied late shows the machine as on
  until the next cycle.
- Over Home Assistant a missing activity is not noticed within a cycle.

Coffee:

- The docstring of `migrate_legacy` says that values in Home Assistant always win
  (`coffee_timing_policy.py:291`); the code, like docs/control-center-integration.md:45,
  lets explicit values of the bot win. A helper that is unavailable while the
  migration plans counts as absent, and the defaults are written over it.
- After a failed roll-back the policy is `None`. Whatever reschedules in that
  time cancels the timers and makes none; when the same pair is read back the
  refresher sees no new revision and does not reschedule. The cycle that runs
  then has no alerts (`excused` in CoffeeAlerts).
- Timers that another handler made with a policy the refresher has not seen stay
  with it when Home Assistant goes back to the pair the refresher knows
  (`strayed` in CoffeeTimingPolicy).
- A refresh takes no lock and can publish a pair that a patch is about to change
  or to roll back.
- An off that is handled late clears the next cycle, and an on that is handled
  late adopts it again with fresh flags: its alerts are repeated (`lost`).
- A mark that is refused because the machine is off is not recorded although the
  message went out, and an attempt does not look at the machine again
  between its two channels.
- A save of a new cycle that fails leaves the timers of the old one, which then
  announce the new cycle early; `excused` names the case.
- The legacy routes adopt a cycle with the time of the switch and no timers; the
  next on event adopts it again with the time of the helper.
- The thread of a cancelled save ends after the lock was released and may
  replace a newer file by an older one.

## 6. Proofs

`ReminderDeliveryProofs` proves, for all values of the constants that satisfy
`DeliveryAssumption`:

- `TypeCorrect`: `Spec => []TypeOK`. The inductive invariant `TypeInv` adds
  `WorkerShape`: a worker beyond `claim` holds a reminder and has a time, one
  that plans has a policy, one that commits has an outcome to write. Without it
  `job[wk[w].r]` would not be defined.
- `ClosedRemindersHaveNoJob`: `Spec => []ClosedIsSuppressed`, inductive
  together with `TypeInv`. Each lemma follows one action; `StatusKept` collects
  the lease-fenced writes that leave the status of a job alone.

- `VersionsTellChanges`: `Spec => ChangesAreVersioned`. The invariant it needs is
  that a reminder that does not exist has version 0 (`FreshRows`).
- `SettlesTogether`: `Spec => []SettledTogether`, which is not inductive: a
  worker may suppress a job with the verdict "delivered" or "failed" it took from
  a reminder it read earlier. `SettleInv` adds `LeaseVerdict`: who suppresses with
  such a verdict no longer holds its lease. That rests on `LeaseOrigin` (only a
  claim makes a lease, and a claim puts its worker at `load`) and on `RowsAgree` at
  the moment of the read: a settled reminder has a finished job, which nobody
  leases. `RowsAgree` also says that a reminder that does not exist is not
  settled, which creation needs.
- `SettledStaysSettled`: `Spec => SettledIsFinal`. Every write of a scheduler that
  could move a settled reminder is fenced by a lease, and a settled reminder has
  none; what is left are the requests.
- `NoCallAfterStop`: `Spec => StopIsSilent`. The only step to a provider call is
  `Recheck`, the last look at the reminder in `_attempt_channel`, and it turns
  away from one that is closed or delivered, whatever was read of it before.

- `DeliveredMeansAccepted`: `Spec => []DeliveredWasAccepted`. The invariant
  `AcceptanceInv` follows an acceptance to the state "delivered": an attempt
  recorded as success, a call that was answered, an outcome the worker
  remembers and a verdict it is about to write each have `accepted > 0`, for the
  channels of the policy stored with the job, which a worker's own copy equals
  as long as it holds the lease. `AttemptInv` says that the rows of attempts are
  numbered without gaps and that one row is in the hands of at most one worker.
- `DuplicatesAreOwedToLoss`: `Spec => []DuplicatesNeedLoss`. The bound
  itself is not inductive. `WithinAllowance` counts, beside the acceptances the
  bot heard of (`Heard`, the difference of `accepted` and `unheard`), the
  workers that may still hear of one: their sum is at most one plus the lost
  leases (`FreeBetweenLeases`, `FreeAfterTrying` say where a worker adds nothing). A
  worker enters that sum by a claim, when no other holds the lease, and who leaves
  it with its lease gone is counted as lost. A lost answer moves `accepted` and
  `unheard` together, and what the code does next is what it does after a
  refusal. The number of workers appears in a
  sum, so `DeliveryAssumption` says that there are finitely many.
- `BudgetIsKept`: `Spec => []BudgetPerCycle`, for any number of schedulers: beside
  lost leases, no cycle has more than `MaxAttempts` tries of a channel.
  `BudgetInv` counts the tries of the cycle together with the workers that have
  planned one (`CapKept`), and the workers that planned and lost their lease since
  (`StaleAreLost`). A worker that plans knows the tries of its cycle, unless a
  stale worker has opened it meanwhile, and then every try in it is a lost lease's
  (`DriftIsLost`). `CyclesInOrder` says that cycles are numbered without gaps, so
  that the one a worker opens is empty.
- `CapsAreKept`: `OneScheduler => (Spec => []CapsPerCycle)`, the budget and the window
  together. `OneScheduler` is the program's own situation: one container runs
  one scheduler, and `MCDelivery_Crashes` has one worker. The hypothesis is
  needed for the window: of two workers, one that was held up may open the
  window of a cycle at the time it read when its run began, which the other has
  passed. `WindowInv` says that a worker's copy of cycle and window is the job's
  (`CopiesMatch`) and that a worker past its plan is inside the window
  (`InWindow`), since a run keeps one time from plan to try.

`SettlesTogether`, `SettledStaysSettled` and `DeliveredMeansAccepted` are for
instances without the legacy scheduler (`"fire" \notin Edits`). `mark_fired` of
the release before the cutover settles a reminder on behalf of sends the database
has never seen and leaves its job to the next reconciliation, so the three do
not hold with it; every other request is included, and the other theorems
include it too.

`ProviderMutationProofs` proves `CacheTypeCorrect`. Two lemmas carry it:
`RowOperators` (every way the code writes a row of the copy, from an
observation, a tombstone or a claim, gives a row) and `ReportType` (what the
server answers is a finite set of observations).

It also proves `MutationTypeCorrect`. Its invariant
`MutationTypeInv` adds `HandlerShape` (a handler at work has a request that the
copy could have given its client, and holds an ETag where its write names one)
and `FlightShape` (so has a write under way).

It proves `OneEffectPerKeyHolds`, `OneAnswerPerKeyHolds` and
`AnswersAreTrueHolds` from one invariant, `KeyInv`. None of the three is
inductive, because a write may take effect long after its sender stopped. What
the invariant says instead is who may still act for a key: a claimed key is in
the hands of exactly one handler, or one write travels under it, or nothing
more can happen (`RowsKept`, `OwnersKept`, `FlightKept`).

The same module proves `NoLostUpdateHolds` from `WriteInv`, which adds to
`KeyInv` what an ETag pins down: an ETag that made an event writable belongs to
one content of a plain event, the server never gives it to another, and the
pin passes from the observation to the row (`SeenPinned`, `RowsPinned`), from
the row to the handler that compared versions (`HandlerPinned`) and with the
write to the server (`WritePinned`). `Follows` says that a row changes its content
only together with its version, which is why the version a client names tells
what it saw.

`VersionsTellEvents`, `MutationSpec => VersionsTellApart`, says the same of every
reader: a step that shows an event differently, deletes it or brings it back
raises its version, whichever refresh or confirmed write it belongs to. It
comes from `RowsGood`, which follows the rows through all of them.

It also proves what the copy promises:

- `TombstonesTakeTwoMisses` and `TombstonesTakeTwoMissesNextToWrites`:
  `TombstoneNeedsTwoMisses` under `Spec` and under `MutationSpec`. In `StrikeInv`, a row with
  a strike is live, was reported missing to the refresh before, and is in a
  calendar the copy knows (`StrikesTold`); and what a refresh has yet to decide it
  has asked about or will ask about (`DueVerified`), so a strike that is not
  confirmed is taken back.
- `QuietRefreshIsExactHolds`: `MutationSpec => QuietRefreshIsExact`. `QuietInv` adds what a
  refresh in a calm has collected (`CalmKept`: everything shown in the calendars it
  is done with, nothing else, with the server's content), and that a live event
  is in a known calendar (`Housed`). The second needs the writes: the calendar of a
  request is known from its preflight on and no step forgets a calendar
  (`Addressed`, `CalendarsStay`).

Both suppose `VerifiesAll`: no calendar has more than `Limit` resources. That
is where the code's promise ends: it verifies 512 cached resources of a
calendar (`cache.py:833`) and passes over the others in silence, so that for a
larger calendar an event may keep a strike through a complete refresh that did
not look at it, and a deleted one stays. It is a hazard in the list, not an
assumption of the modules: the model has the limit, and the types, the keys and the
lost updates are proved without the hypothesis.

`PushWardMirrorProofs` proves `MirrorTypeCorrect` and `CleanupMeansOffHolds` for
all values of the constants that satisfy `MirrorAssumption`. The invariant
`MirrorInv` adds two facts: what is not enabled has no task (`EnabledOnly`), and
who waits at the lock marks the machine on, or off without an activation
(`MarkKinds`). The argument is in three lemmas: whoever creates the loop has
cancelled cleanup and deleter in the same step (`StartClears`), whoever creates
the cleanup has cancelled the loop and an off is on its way (`StopPromises`),
and no other step lets one of the three appear (`NothingAppears`).

`ReminderCutoverProofs` proves the types and the four properties of the cutover
from one invariant, `CutoverInv`. Its parts:

- memory is never behind the file. It is ahead by the operation that holds the
  lock while its save runs, and by those whose save failed, which memory keeps
  until the next save writes them; none of these was confirmed. So what was
  confirmed is in the file, whatever fails or ends next;
- a row of the database comes from the file of its import, which the marker
  records, or was created after it and the file does not know it. A start
  with another file is refused, so the two never disagree about an accepted
  reminder;
- a reminder that is pending anywhere was not heard to be sent (`Fresh`: each
  message a channel took lost its answer), or its timer is between the
  send and the saved mark: losing it there is what `excused` records. A lost answer
  moves `sent` and `unheard` together, so a lemma of its own (`NothingHeard`)
  carries the invariant over it;
- a cancelled reminder is pending nowhere a timer could read it again.

`PendingHasTimer` makes an exception of creations that could not be saved and of
timers that broke or ended with every channel
refusing (`idle`), since the code leaves such a reminder pending.

`PlanningActionsProofs` proves the three invariants of the transactions and their
types from `ActionsInv`: the open transaction sees the committed tables and, on
top of them, what its owner has done so far in the order of the code
(`Transaction`); a key or token that is not yet used has no trail and no change;
a button shows a version its row had (`StoreInv`). From it
`ActionsImplementStore` shows `Spec => KeepsPromise`, that is the specification
of PlanningStore under the refinement mapping: each action has a lemma saying
which step it maps to, `Commit` of a change to `Carry`, `Answer` to `Tell`,
`Settle` and `ServeProject` to `Interfere`, and the rest to a stutter.

`PlanningBackupProofs` proves the types and the three properties of the backups
from `BackupInv`, for any number of commands:

- `Base`: every run has a number of its own, so nobody lists or removes the
  package a run has not yet renamed, and the list a run works through names
  only packages that were there;
- `Plenty`: there is a set of `Keep - 1` packages (or of all that were made)
  which no run has on its list and which is newer than everything on a list.
  A new listing keeps it or moves it forward, because all listings use the same
  order; checking the proof against an order that each listing breaks anew gave
  the counterexample that `Place` now excludes. `Alone` is the sharper count for one
  process;
- `Backed`: a success that is in the sidecar, in a copy about to be written,
  or in a run past its rename has a package that is not older, outside the
  lists;
- `Reported`: unless an update was lost, the sidecar holds the last outcome, or
  "running" while the run that will replace it is at work.

With one package to keep and two commands `SuccessIsBacked` fails for a moment: each
run may remove the other's package. The property says so.

`CoffeeAlertsProofs` proves the types and the five safety properties of the alerts
from one invariant, `AlertInv`, in parts that name what keeps whom apart:

- `LockInv`: in line is exactly who waits for the lock or works under it, and who
  writes is the first in line. From it come `HandlerAlone` and `TaskAlone`: beside a
  handler that changes the cycle no task marks, and the other way round. The line
  is an order and not a sequence in the model because nothing here counts
  places, and an order is what `Joining` and `Leaving` say something about;
- `HandlerInv`: settings about to be saved differ from memory in settings only, so
  making them visible after the save undoes no mark (`Candidates`);
- `TaskInv`: `NoStrayTask`, with the two halves that need it. `Current`: a task at
  work belongs to the cycle in memory, or the next is being saved (`Adopting`), or the
  alert was given up. `Reported` and `Remembered`: what was accepted is in the state, in the hands of
  the task that will mark it, or lost; and a task at the door of a provider holds
  nothing the state remembers, since it has just read it;
- `FileInv`: memory is ahead of the file only by a save under way, a save that
  failed or the thread of a cancelled one.

Each action of the alerts has its lemma; those that renew timers go through `RenewDoes`, which
says what `Renew` leaves behind whatever it is called for: every task that ran has ended,
the new ones sleep, are of the given cycle and are known, and what the ended ones
had not yet marked is lost. For the action properties `WhoGoesOn` adds that nobody but
a task itself moves it on to a send or a save. Working out `Remembered` showed that `lost`
had to count one more case: a message whose mark is refused, or comes in another
cycle, leaves nothing in the state. The property that rests on `lost` was
checked again, by TLC and by its mutant, with that definition.

`CoffeeTimingProofs` proves `TimingTypesHold` and `PatchAnswersHold`, the latter
`Spec => PatchAnswersAreTrue`, for any number of clients and all minutes and bounds that satisfy
`TimingAssumption`. `TimingInv` follows each client, poller and script
by itself, in `Actor(a)`:

- `Eyes`: a reading is of the helper as it is, or as it was before with an older
  time, since the times of helpers only grow (`Grows`). A revision that has won is
  overtaken by a changed time;
- `Claim`: a patch that has read its revision will not find it among those that
  have won, and `Holds`: it has the lock. Together no revision wins twice;
- `Fresh`: a reader that nobody disturbed between its two reads holds the
  helpers as they are, so what such a patch answers is what is set.

`OthersKeep` shows `Actor(b)` for all that do not move, so the lemma of an action
speaks of its own actor only.

Only model-checked:

- The liveness properties `EveryReminderSettles`, `CopyConverges`,
  `PolicyConverges`, `TimersFollow`, `AlertsSettle`, `ActivityFollows` and
  `WidgetFollows`: ENABLED and fairness are out of the prover's reach.
- The instances outside the hypotheses: `CapsPerCycle` with two schedulers is false
  in its half about the window and not checked there; settlement with the
  legacy scheduler has the exception described above.

Type invariants are proved where there is a proofs module; elsewhere they
document the state, and the runs check what depends on it.

## Not modelled

- Order workflows (coffee, tea, water) and administrator modes. Their state is a
  draft per person and wait flags in Home Assistant, and the code lets whatever
  is asked next replace them; overlapping dialogues have no promise a property
  could state without listing the exceptions below. Seen: the watcher after a
  boil (`tea.py:545-565`) heats again after the user stopped the kettle, and two
  confirmations leave two watchers; a second press of a confirmation sends a
  second default order; a dedupe key remains after a failed handler; a message
  that could not be sent loses its context, and the answer takes the latest
  order; a late edit of the progress may replace a confirmation.
- The kettle shortcut keeps no state: one call, one read, an answer that says
  whether the result is known.
- The Alice surface and the parsers of texts are functions of sentences. What
  they confirm is created by operations the models have.
- Keyboards, messages, schemas, envelopes, authentication, configuration and the
  probe `icloud_vtodo_probe.py`: decoding and layout, without state of their own.
- Reports of health other than the backup status, the update of the delivery
  preferences (one transaction with a revision check), station presets and
  display settings (the lock and the save of CoffeeAlerts, with other fields).
- Of modelled components: parsing, cryptography, sizes, texts, and for PushWard the choice of the
  Home Assistant service, `stale_ttl` and the length of pauses after failures; a
  POST for a slug that exists is taken to be accepted, and one reschedule waits
  at a time.
