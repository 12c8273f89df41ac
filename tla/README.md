# Verification of UOS Secretary (sidae_secretary)

TLA+ modules of the parts of `src/sidae_secretary` that several processes,
threads, crashes and lost messages make hard to get right, the TLC
configurations that check them on small instances, and theorems, proved with
TLAPS, that hold for every value of the constants. Paths below are relative to
the repository; line numbers are in `PROJECT.json` under `map`.

Run `tlc -config X.cfg M.tla` for a configuration and `tlapm MProofs.tla` for a
proof module.

## 1. The system

UOS Secretary is a personal assistant for students. It collects notices, tasks
and materials from UClass (Moodle), the timetable from the university portal
and the weather, keeps them in one SQLite database, and talks to its users
through a Telegram bot. It has no server process that owns the database:
several operating-system processes started by launchd or by hand (a Telegram
listener, a UClass poller, `sidae sync --all`, single-job commands, the
onboarding, relay and dashboard HTTP servers) work on the same file. Database
calls commit one by one, external calls stand between them, and flock files
keep jobs apart; an operator's refresh and the onboarding take no lock.

### Inventory

| Component | State | Operations | Interacts with | Hard behaviour | What makes it correct | Module |
|---|---|---|---|---|---|---|
| Telegram synchronisation (`jobs/pipeline.py`, `connectors/telegram.py`) | `inbox`, `telegram_reminders`, `sync_state("sync_telegram")`; offset at Telegram | poll, store, execute commands, answer, send reminders, record the offset, error handler | Telegram, listener, `sidae inbox ignore`, all command handlers | redelivery, crash between an effect and its record, lost answers, an offset dropped by an error | no update lost, no command taken for executed that was not, repetitions bounded by faults, everything executed in the end | `TelegramSync` |
| Process locks and scheduling (`cli.py`) | lock files; the poller's locals | take, wait, time out, skip, release; eight jobs in order | every job | daemons that never release, nested locks, kills, waits without limit | a job runs once at a time, no lock leaks, no wait for ever, the poller goes on collecting | `SyncLocks` |
| Briefing relay (`briefing_relay.py`) | state file | verify, deduplicate, send, merge | Telegram, the threads of its server | the lock is not held during sends, non-atomic write, lost answers | an answer of ok is true, no merge is lost, duplicates bounded | `BriefingRelay` |
| Scheduled briefings and digest (`jobs/pipeline.py`) | per-user rows in `sync_state` | select chats, compose, send, record | Telegram, collections, policies | send before record, midnight, partial failure, notices stored late | each message once a day, nobody passed over, a notice counted once per time it has, and lost only if it came late | `ScheduledDelivery` |
| Notification policies (`jobs/pipeline.py`, `db.py`) | `notification_policies`, preferences | upsert, select chats | scheduled delivery, assistant | two names of a slot, latest row wins, time zones | a run serves whom the user asked for last | `NotificationPolicies` |
| Day briefs (`jobs/pipeline.py`, `day_agenda_state.py`) | remembered briefs per process, `task_merge_cache` | fingerprint, look up, build, merge tasks | commands, briefings, publication, LLM | whole seconds, reads in several transactions, one row for three lists of tasks, duplicates that do not chain and cross midnight | an old brief only within a second, no task hidden but by one of the next minutes | `DayBrief` |
| Ops action queue (`ops_action_service.py`) | deque, index and claims in memory | launch, deduplicate, evict, run, release | dashboard threads, the jobs it runs | eviction of what still runs, late release, thread that does not start | one table, one recorded run per scope, claims end | `OpsActionQueue` |
| Onboarding and browser sessions (`onboarding*.py`, `browser_session.py`, `db_auth_attempts.py`, `db_connections.py`) | onboarding sessions, connections, attempts, browser sessions | issue, look up, submit, limit, mark used, finish | remote LMS, secret store, HTTP threads | check and use in different transactions around a remote login, limits counted before the attempt is recorded, expiry | reuse and overshoot bounded, a failure leaves no half connection | `Onboarding` |
| UClass collection (`jobs/pipeline.py`, `connectors/uclass.py`) | tasks, artifacts, files, `sync_state` | fetch, upsert, download, extract, brief, scan, record, push; repair | Moodle, file system, LLM, users | name collisions, partial failure of stages, a second run without a lock | a row has the hash of its file, closed tasks stay closed, a brief is pushed once | `UClassSync` |
| Portal timetable (`jobs/pipeline.py`, `connectors/uos_portal.py`, `connectors/uos_openapi.py`, `portal_sync_service.py`) | events, browser sessions, per-user rows | resolve targets, fetch by API, browser or catalog, upsert, link | portal, onboarding, UClass collection | rows written back as read before a fetch, one target's failure, two writers of an event, a catalog that does not say who is in a section | closed sessions stay closed but for a race, users apart, the timetable arrives | `PortalTimetable` |
| Weather (`jobs/pipeline.py`, `connectors/weather_kma.py`, `connectors/seoul_air.py`) | a row per user and one for all | region, look up, fetch, write | KMA, commands, briefings, job, refresh | four writers, a region changed meanwhile, forecasts that are late, midnight | weather of the region asked for, the whole day, lost only in a race | `Weather` |
| Inbox, tasks and assistant (`jobs/pipeline.py`, `db.py`, `assistant/`) | `inbox`, `tasks`, `events`, reminders, run records | apply drafts, mark tasks, plan, check and execute capabilities | Telegram commands, operator, collections, LLM | several transactions per command, re-execution, a write that fails in the middle | a processed draft has its entry, a closed task stays closed, a record says what was done, users apart | `Commands` |
| Dashboards and health reports (`ops_*.py`, `telegram_setup_state.py`, `db_sync.py`, `jobs/pipeline.py`) | rows of all collections | record, surfaces, failed stages, headline, `/setup`, audits | all jobs | one row for many users, several views of the same rows, errors forgotten after a login | ready means working, views agree, a failure reaches the page | `Health` |
| Database (`db.py`) | schema version, seeds | init, migrate | every process at start | concurrent starts | one migration at a time | none |
| LLM client, CLI wrappers, launchd and GUI, secrets, helpers | none of their own | single requests, file generation | | little | not modelled, see section 7 | none |

## 2. Plan

Done: the modules of section 3, composed where they interact.

- `ScheduledDelivery` EXTENDS `NotificationPolicies`: a run serves the chats the
  policies select when it begins.
- `TelegramSync` implements `CommandMailbox`, an at-least-once mailbox, by a
  refinement mapping (`AtLeastOnce`); model-checked and proved.
- `SyncLocks` justifies the single runner of a job in `TelegramSync`,
  `ScheduledDelivery`, `UClassSync` (the poller), `PortalTimetable` (the job) and
  `Weather` (the job). What takes no lock, an operator's refresh or repair, the
  call for one user, the commands, is a second process of those modules.
- `Commands` starts where `TelegramSync` calls `_execute_telegram_command`.
- `Health` reads the rows that the collections leave; `Onboarding` opens the
  sessions that `PortalTimetable` reads.

- Every safety property that a run checks, invariant or action property, and the
  refinement are proved for all values of the constants (section 6); of
  `NoTaskHidden` the first conjunct, `KeptAreShown`.

Left: the migration lock of `db.py` (the database has no module yet); the bot menu
and its cooldown in `TelegramSync`; several courses of a user, with their names and
aliases, in `PortalTimetable`.

## 3. The modules

Every action stands for one step between two points at which another process
can act or this one can fail: one committed database call, one external call,
one acquired lock. Locals of a process are variables that a crash clears; the
tables of the database are variables that it does not touch. Definitions that a
comment calls `mutant` are wrong on purpose: substituted for the definition that
follows them they show that a property notices the mistake. They take no part in
any specification. Type invariants are the first conjunct of one property of a
module, so that each run checks them too.

### TelegramSync, CommandMailbox

One process holds the sync-telegram lock and runs cycles of `_sync_telegram_once`.

| Code | Model |
|---|---|
| server-side queue of the bot API | `log`, `forgotten`; an offset confirms everything below it (`Confirm`) |
| `next_offset` in `sync_state` | `cursor`, 0 when the key is missing |
| rows of `inbox`, `telegram_reminders` | `inbox`, `reminder` |
| `get_updates`, `normalize_updates` | `Poll`: up to `PollLimit` updates, or none when the answer is lost |
| `upsert_inbox_item` | `Store`, row by row; it overwrites `processed` |
| `list_unprocessed_inbox_commands`, `_execute_telegram_command`, upsert with `processed=True`, answer | `ListCommands`, `Execute`, `MarkProcessed`, `Reply` |
| `_dispatch_due_telegram_reminders` | `ListDue`, `SendReminder`, `MarkReminder` |
| final `update_sync_state` | `Record`; it ends a cycle or the command |
| handler in `sync_telegram` | `Raise`, then `RecordError`: a cursor without `next_offset` |
| kill, launchd restart | `Crash`, `Start` |
| run with Telegram disabled | `SkippedRun` |
| `sidae inbox ignore` in another process | `Ignore` |

Data kept: the kind of an update (dropped, note, other command, `/plan`), and
that `/plan` may reset any reminder to pending, as its identity is a hash of
chat, time and text. The rows are ordered by `update_id`, where the query
orders by `received_at`; users' clocks are Telegram's, so the orders agree up to
ties. `TELEGRAM_COMMANDS_ENABLED` is on; with it off the execution half of the
cycle is skipped. The identity gate only drops answers.

`CommandMailbox` is what the cycle promises of commands, without polls, offsets
and rows: posted, executed or dropped, done; a fault allows two more executions.
The mapping reads the state of a command off the log and the processed flag.

### SyncLocks

`holder` is the flock of each lock file; `at` and `want` say where each process
is: at a lock, in a job, asleep. `Jobs` is the list of `run_all_jobs`; the four
jobs of `_sync_all_shared_job_lock_path` take their own lock inside the
sync-all lock and are skipped when it is busy (`GiveUp`), and only two of them
are waited for (`ShouldWait`). The listener holds sync-telegram and tries the
briefings lock in each cycle (`ListenerStep`). The poller (`Probe`, `ShouldRun`,
`FinishPoller`) remembers whether the host was up and when it last collected.
`Kill` releases everything the process held. Builds without `fcntl`, where no
lock is taken, are not modelled.

### BriefingRelay

`file` is the parsed state file. `Receive` and `Refuse` are the look-up under the
store's lock, `Send` one call to Telegram outside of it, `MergeDelivery` the read,
merge and write under it. `WriteFails` is `write_text` cut short after it
truncated the file, `Crash` a kill of the server. A lost answer is a send that
arrives and raises. Verification of a signature has no state and is left out: a
signature is the whole payload.

### OpsActionQueue

`records` and `index` are the deque and the dictionary, `running` the claims,
`worker` the state of each thread. `Launch` is the block under the lock with the
eviction it performs (`Evicted`); `StartThread`, `Begin`, `Settle`, `ReleaseClaim`
are the steps of `_runner` that other threads can see separately; `StartRaises`
is a `thread.start` that fails. Ids are numbered by launch, so that the deque's
order is the order of the numbers. The `duplicate` flag of a record is for
display and left out.

### ScheduledDelivery, NotificationPolicies, MCScheduledDelivery

A behaviour is of one job, briefings or digest, as they share no row.
`Begin` takes the date and the chats; `OpenChat` and `SkipChat` read the chat's
row (`Pending`) and, for the digest, the notices (`NewNotices`); `Send` is one
message; `WriteBriefings` writes the row after all sends of a chat,
`WriteDigest` after a send that worked; `Abort` is a crash or a database error.
The clock goes on during a run, over midnight too. The row is read in the
step that reads the notices: no other process writes it, by
`SyncLocks!OneRunPerJob`.

A notice is a discussion of a forum. `Modify` gives it a time, when it is posted and
whenever it is edited or answered (`timemodified`), and `Collect` writes one of the
times it was given over the one in the row, as the upsert does with each collection:
later than it was given, and with two collections at once an older one too.
`counted[n][t]` counts the digests that listed the notice with the time t. `late` has
the notices whose time was already passed when it was stored; `firstRead` is when
the first digest of a chat was made, which looks back one day. The limit of 100
notices of a digest is left out: more of them in one day would be passed over.

Whom a run serves is `NotificationPolicies!Selected`: the rows under both names of
a slot, the later of them in force (`InForce`: time of writing, then id), matched
against days, time and time zone (`Matches`); the preference where there is no
row. `Ask` is a user's choice, which the assistant writes under a name that the
planner chose; it falls between two runs. Time has ticks; a time zone is a shift
of whole ticks.
`MCScheduledDelivery` adds the symmetry of the chats, sound because the module
and its properties treat chats alike.

### DayBrief, MCDayBrief

One user, two processes: the listener with its memory `mem` (at most
`DAY_BRIEF_CACHE_MAX_ENTRIES` briefs) and the jobs, which never find what they
remembered. A request goes through `Ask`, `Hit` or `Miss` (`Fingerprint` and
`Matching`), `ReadRest`, `ReadTasks`, `ReadMerges`, `Store`, `Reply`: separate
transactions; the memory is a dictionary in the order of last use, from which
`Without` takes the one entry of a key. `Collect`, `Close`, `Touch` and `Poll` are other processes' writes.
`WriteMerges` rewrites the row of the groups for the list of tasks of its kind
of process; `MergeLines` applies whatever groups the row has: `Deduped`,
`Eligible`, `Components` and `Verdicts` say which groups the model may have been
asked about and may have confirmed. `Brief(ref, day)` is a scheduled or published
briefing: the one of the evening is about tomorrow, and its tasks are read from
today on.

A deadline (`Slots`) is in the first or in the last minutes of one of three days.
`Equivalent` is `_tasks_equivalent`: titles alike (`Similar`, any pairs: one title
contains the other, which is not transitive) and at most 15 minutes apart, so that
the last minutes of a day and the first of the next count as near (`Midnight`). Two
deadlines in the same minutes count as near, two at the ends of a day do not.
`Deduped` goes through the rows by deadline, then by place in the table, as
`_dedupe_tasks_for_briefing` does: a row takes the place of the first kept one it is
equivalent to if it has more to show (`Rank`), else it is dropped. The list of the
next days, which follows that of the day, is merged in the same way and left out.

Events, materials, notices, courses and aliases are one version number (`rest`).

### Onboarding

A request is `LookupUsed` or `Lookup`, `CountSession`, `CountRemoteFailed`,
`CountRemoteTotal`, `Exchange` (the remote login), `StoreSecret`,
`UpsertConnection`, `DeactivatePortal`, `MarkUsed`, `RecordSuccess`, `Respond`; a
refused or failed one ends in `RecordInvalid`, `RecordBlocked` or `RecordFailed`.
`Raise` is an exception anywhere (handled inside the guarded block, dropped
outside), `Drop` a request whose client or thread is gone, `Crash` the server.
The remote browser of `onboarding.py` is left out: its routes answer 404.

### UClassSync, MCUClassSync

`Poller` is `sync_uclass` over all users under its lock, `Refresher` is
`refresh_uclass_for_user` of an operator without one. Both do `_sync_uclass_target`:
`Fetch`, `PersistTask` row by row (`Upserted` keeps a closed status), then per
material `Open` (the row is read), `Check` (a stored file is reused), `Request`,
`Resolve` (the free name, `Target`), `Write`, `Read` (hash, extraction, brief),
`Scan` (deadline tasks), `Record` (the artifact row), `Push`, and `Finish`. Any
may fail into `Fail` or be cut off by `Kill`. The environment replaces a
material at the school (`Replace`), submits or closes tasks, and loses files.
`StartRepair`, `RepairText` and `RepairRow` are
`repair_missing_material_briefs_for_user`: it lists rows once and writes each
back as listed, with the text or the brief that was missing. In the model an
operator refreshes or repairs, one after the other. A content stands for bytes,
hash and text; all materials share one file name, the case in which they
collide. `Order` is the order in which the answer lists them, which is that of
the downloads. Courses, notices and events are upserts of the same kind and left out.

What `PushesBounded` allows is counted in `upset`: a file that was lost, and a row
that a run wrote although somebody had written it since the run read it. The runs
of which this is true are in `outdated` (`Rewritten`). Comparing the values is not
enough: two runs can write one row to the same values, and the second still
knows nothing of the push of the first.

### PortalTimetable

`Job` is `sync_uos_portal_timetable`, `Caller` is
`prime_uos_portal_timetable_for_user`. `Resolve`, `ResolveMissing`, `ResolveNothing`
read the targets of the mode; a target is `FetchApi`, `FetchBrowser` or
`FetchCatalog` (by mode, with their failures), `Enrich` (building names, cached per
process), `Write` event by event, `WriteSession` (the session's row as it was
read), `Report`; `Overall` is the row of user 0. `BrowserLogin` and `Connect` are
the onboarding, `Register`, `LinkRead`, `LinkWrite` the UClass collection that links
stored events to courses. A meeting is a class at a time in a room, as in its
external id.

With the official catalog a user has one course and is in one section of it, which
has the user's name in the model; that is not in the catalog. `looks[u]` is the set of
sections that fit the names of the course best, within the fifteen points in which
`_match_uos_official_catalog_events_to_uclass_courses` calls them ambiguous: the
own one, another user's, several or none, and `Rename` changes it at any time. A
section that was once taken is bound to the course (`Bind`), and its number
outweighs the names (`Fits`). `Matched` takes the only section that fits, be it the
wrong one, and else has no meetings (`NoMatch`), which ends in the report "skipped",
like a catalog that does not support the request. The scores, and the rule that a
section goes to one course of a user only, which takes two courses, are left out.

### Weather

Time is in half hours. `Observations`, `UltraForecasts`, `VillageForecasts` and
`CoverageForecasts` are the publication times that the client tries, newest
first; `Snapshots` the ones it can end up with when up to `Late` of a kind are
missing, each read off by `Snapshot`. `Read`, `Look`, `Fetched` or `FetchFails`, and
`Send` are a command, a briefing or a refresh; `JobFetch` to `JobNext` the job with
its steps for the default region, the groups of users by target, and its error rows. `Matches` is
`_weather_snapshot_matches_target`. Temperatures and conditions are payload.

### Commands, MCCommands

Commands that write: `/apply` (`ExecuteApply`, `ApplyUpsert`, `ApplyMark`), `/done`
(`ExecuteDone`), `/plan` (`ExecutePlan`), and `/bot`: `CreateRun`, `PlanRun` (the
LLM's answer is any of `AssistantPlans`, validated), `BlockRun` (writing
disabled), `MutationAction`, `QueryAction`, `ActionFails`, `FinishRun`. The operator's
`sidae inbox apply`, `ignore` and task commands, a collection (`Collect`), and
changes of the connected chats act beside. `Redeliver` opens a row again; `Die`
is a kill or an exception.

### Health, MCHealth

Writers: a job starts (`Start`), records each user (`UClassTarget`, `PortalTarget`,
`WeatherTarget`), then the whole (`FinishRun`, `WeatherDefault`, `TelegramCycle`);
an operator's refresh records one user (`RefreshPortal`, `RefreshUClass`,
`RefreshWeather`). `Record` builds a row from the one before it, `Write` stores it,
so that two processes can overtake each other. Readers are operators:
`Report` (`ops_health_state.py`), `Candidates` (`inspect_last_failed_stage`),
`Headline` (`ops_snapshot_service.py`), `UClassLevel`, `PortalLevel`, `CoreReady`
(`telegram_setup_state.py`), `UserCard`, `Findings`, `UserAudit` (the audits of the
dashboard). A row is a status, its times, and the parts that went wrong. `missed` has
the jobs whose last run failed for a user, the weather among them. `UserCard` has the
latest failed stages of the user.

## 4. The runs

| Run | Module, configuration | Checks | Bounds |
|---|---|---|---|
| `telegram` | TelegramSync, Telegram.cfg | `NoUpdateLost`, `NoCommandSwallowed`, `RemindersBounded`, `AtLeastOnce`, `CommandsExecuted`, `RemindersSettled` | two updates, one reminder, command and due limit 1, two faults |
| `locks` | SyncLocks, Locks.cfg | `OneRunPerJob`, `LocksReleased`, `SyncAllEnds`, `PollerKeepsCollecting` | one full run, one single-job command, both daemons, all waits, one kill |
| `relay_safety` | BriefingRelay, Relay.cfg | `AnswersTruthful`, `DeliveriesRemembered`, `DeliveriesBounded` | two threads, three requests for one item, two messages, three chats, one of them not allowed, one fault |
| `ops_queue` | OpsActionQueue, OpsQueue.cfg | `OneInProgress`, `ClaimsEnd` | two scopes, two records, five launches, one failed start |
| `delivery_safety` | MCScheduledDelivery, Delivery.cfg | `OncePerDay`, `ChatsServed`, `NoticeCountedOnce`, `NoticePassedOver`, `AsAskedLast` | two chats, two days of two ticks, one notice that gets up to two times, two choices, one fault; two of choices, faults and edits together |
| `onboarding` | Onboarding, Onboarding.cfg | `AttemptsLimited`, `LinkReuseBounded`, `UsedLinkConnected` | two threads, three submissions, one link, two schools, two accounts, one fault |
| `uclass` | MCUClassSync, UClass.cfg | `HashOfFile`, `PushesBounded` | one user, two materials of one name, two contents, one with a deadline, one calendar task, two runs and repairs, one change, one fault |
| `portal` | PortalTimetable, Portal.cfg | `SessionTruthful`, `UsersApart`, `TimetableArrives` | two users, two meetings, three modes, two changes or a change and a fault |
| `weather` | Weather, Weather.cfg | `RightRegion`, `DayCovered`, `LostOnlyInRace` | two users, two regions, the half hours before and after midnight and at half past two, one late forecast, two runs, one change of region |
| `daybrief` | MCDayBrief, DayBrief.cfg | `StaleOnlyInItsSecond`, `NoTaskHidden` | three tasks around midnight, one alike with the two others, a memory of one brief, two writes, one rewrite of the groups, one tick of the clock |
| `commands` | MCCommands, Commands.cfg | `AppliedIsThere`, `RunsTruthful`, `ClosedStaysClosed`, `OwnRowsOnly` | two users, two drafts, one collected task, two commands, one change, one fault |
| `health` | MCHealth, Health.cfg | `SetupReadyIsTrue`, `ViewsAgree`, `FailureReachesHeadline` | two users, two runs, one login or lost secret, one tick, two modes of the timetable |

Beyond these sizes every safety property but the second half of `NoTaskHidden`, and the
refinement of `telegram`, is a theorem; for them the bounds only decide how much a
run tries out. They matter for
the six liveness properties. Why they are enough for what the runs are to show:

- Telegram: a second fault can hit the recovery from the first; two updates make
  a batch that is stored in part, a batch longer than the command limit, and a
  note in front of a command.
- Locks: four processes of different kinds give every pair of roles, and a full
  run and the single-job command contend for a job lock; two full runs are
  covered by the theorems, which hold for any number of processes.
- Relay: two requests race and the third comes after either has merged or failed.
  `DeliveriesBounded` allows what the race can do: a message per thread, and again
  per fault.
- Ops queue: five launches let a run be evicted, its scope be launched twice
  afterwards, and the old run end between those two; four do not.
- Delivery: two days give a run over midnight and a second day's run with the
  first day's row; two chats show what one leaves behind for the next; two
  choices can be written under both names of a slot, or one be rewritten.
  The second time of the notice is an edit between two digests, or one before the
  first was collected; a failed send leaves a notice to the next digest.
- Onboarding: two threads race with limits of one and two, and the third
  submission meets what the race left.
- UClass: two materials and two contents collide in one file name and can differ
  or agree in bytes; the two runs are a collection and a refresh that overlap, or
  one after the other; the change replaces a file or closes a task in between.
  Assignments, which the web service reports as open for ever, are left out of
  the instance: the calendar task is written in the same way.
- Portal: two users show that one's failure stays with him; two changes close and
  reopen a session, or move a class twice, while both runs hold it. In the catalog the
  section of the other user is the wrong one, and both together are ambiguous; a
  rename between the two runs binds one and then fits the other.
- Weather: the three times are on both sides of midnight and before and after the
  first forecast of the day that may be late.
- Day brief: two writes in one second, and one that makes a remembered brief old;
  the lines need three tasks: a chain in which the middle one is dropped for the first,
  or takes its place, and a group that was made for a list with another task in it.
  Each of the exceptions that `NoTaskHidden` makes occurs in the run.
- Commands: two commands of two chats, one of which names the other's item; the
  fault re-executes a command, kills the listener in a plan or redelivers.
- Health: two users give a success beside a failure; two runs overlap with each
  other; a tick makes a row stale, and a login older or newer than an error. A run
  goes wrong in part by a download or by a command; the other parts (`Faulty`)
  are read in the same way.

CHECK_DEADLOCK is off where the system may stop: the bounded requests, launches,
runs and days run out in all configurations but those of TelegramSync, SyncLocks,
DayBrief and Weather.

### Fairness

- `TelegramSync!FairSpec`: the listener's cycle goes on and launchd restarts it
  (`KeepAlive` in the generated plist); time passes; an answer of getUpdates is
  not lost for ever. Posting, ignoring and failing are not fair, and faults are
  bounded: liveness is claimed after the last fault.
- `SyncLocks!FairSpec`: jobs end (their calls have timeouts), a lock that comes
  free again and again is granted to a process that goes on waiting for it, a
  wait that ran out is noticed, launchd keeps the poller alive. No command is
  started by fairness.
- `OpsActionQueue!FairSpec`: threads are scheduled and actions end.
- `PortalTimetable!PortalFairSpec`: launchd starts the collections again and again, a
  call for a user that has begun ends, and so does the linking. Changes and faults
  are bounded, and nothing obliges the school or the user to act.

## 5. What the runs show

- The offset may be lost at any point without losing an update: the cycle
  stores a batch before it records the offset, and a lost offset makes Telegram
  deliver again. The price is repetition: two more executions per fault, one
  for the row and one for the redelivered update.
- `sync --all` never waits behind the listener, although the listener keeps its
  lock for its whole life.
- The relay never claims a delivery that did not happen, and its merge under the
  lock uses what is in the file then, not what the thread read before.
- An action whose record was evicted may run beside a second one of its scope,
  but the dashboard never lists two of a scope in progress.
- The onboarding's limits and its single-use links overshoot by what is in flight,
  never by more; no failure marks a link used without its connection.
- A collection and a refresh that overlap may lose each other's row, so that a brief
  is made and sent again, but a row never names another material's bytes, except
  where both write to one file at the same time.
- A closed portal session comes back only if it was closed while a collection held
  its row.
- `/setup` says ready only when the last attempts since the last login worked,
  with the exceptions listed below.

What a maintainer may want to know, met while modelling:

- Telegram. An error cycle drops `next_offset`, and the upsert of a redelivered
  update resets `processed`: a command runs again. That is harmless for commands
  with stable identities (`/plan`); reminders of the assistant have a uuid, so a
  second execution makes a second one.
- Relay. Two threads that look an item up before either has merged send it both.
- Digest. A notice that was posted before a digest and collected after it is in
  no digest: the list compares the time of posting with `last_sent_at`.
  `NoticePassedOver` excepts it (`late`). A discussion that is edited or answered gets
  a new time with the next collection and is counted once more.
- Policies. Once written, a policy replaces the preferences of its slot for ever
  and is not asked whether the chat is still allowed; one in another time zone
  can match on two dates within one day of the settings.
- UClass. A run that writes a row which another wrote since it was read makes one
  more push possible even if the values are equal: the run also pushes what it
  has in hand. The proof of `PushesBounded` showed it.
  `_should_scan_uclass_material_tasks` does not look at `content_changed`;
  a failed extraction regenerates the brief from the old excerpt; deadline tasks
  of materials go to user 0; the push of the collection asks neither preferences
  nor policies; the repair writes a row back as it listed it and may undo a
  collection's newer one.
- Portal. A section of the catalog that alone fits the names of a course is taken even
  if the user is in another one, and stays bound to the course from then on: the user has
  the other section's meetings until the binding is changed. `UsersApart` says what
  remains: no choice among several, nothing of another target. A course with no or
  several sections, or an unsupported request, never gets a timetable and is reported
  as skipped. The events of a class that moved are never deleted; a failed load of the
  building catalog is remembered for the life of the process.
- Day briefs. `updated_at` counts seconds, so that a change in the second of the
  fingerprint is missed until the next one; building names are not part of it; the
  listener and the jobs rewrite the row of the groups for lists of their own.
  A task due just before midnight may be dropped for one with a title alike that is due
  just after it, and is then missing from its day; and a task may be dropped for one that
  gives way to a third, with which it has nothing in common.
- Weather. A matching snapshot is used however old it is; after midnight the
  "tomorrow" of yesterday's snapshot is today; a failure of the default region
  ends the job before the users' regions.
- Commands. With no configured and no connected chat every chat is allowed; an
  item that was ignored between the list and the apply is applied; a crash leaves
  a run record pending for ever.
- Health. The failure of the weather for a user's region is recorded in that user's row
  only; the headline reads the row of user 0, which is that of the default region, and
  stays ok. `FailureReachesHeadline` is about UClass and the portal. A skipped or unsupported request of the catalog leaves a row that the
  surface calls ready and the failed stages call unsupported; the stage of a
  failing command has the component of the listener while the surface that is
  degraded is that of sending; two connections of one user share a row; failed
  web-service functions do not reach the row of user 0.

## 6. The proofs

All for arbitrary constants that satisfy the modules' assumptions
(`ConstantsAssumption`, and `PortalAssumption`, `WeatherAssumption`,
`HealthAssumption`, `BriefAssumption`): bounds are naturals, limits positive, the
clock of `Health` has a first moment, the roles of processes disjoint. `PortalInv`,
`WeatherInv`, `HealthInv` and `BriefInv` hold on the instances of their runs as well,
where TLC was asked before the proofs were begun.

A proof module extends the component it is about, or two or three components that
share no state: `JobsProofs` has the locks, the portal and the weather,
`OperatorsProofs` the queue and the health reports, `BriefsProofs` the relay and the
day brief. For that the definitions of `PortalTimetable`, `Weather`, `Health` and
`DayBrief` have the names of their components in them (`PortalInit`, `BriefSpec`).

`TelegramSyncProofs`. `TypeCorrect` first. The other properties are not
inductive; each has an invariant that says what the step in progress still owes.

- `UpdatesDelivered` (`NoUpdateLost`): `DeliveryInv` says that an update which the
  server has forgotten, or which the recorded or the current offset is about to
  confirm, is in the inbox, and that the batch in hand is stored or in `toStore`.
  The offset is only recorded with `toStore` empty, so it confirms stored rows.
- `CommandsNotSwallowed` (`NoCommandSwallowed`): `SwallowInv` adds that the row
  about to be marked was executed.
- `CommandsExecutedBounded` (`ExecutionsBounded`): `ExecutionInv` bounds the
  executions so far plus those still possible without another fault, one through
  the row (`RowChance`) and one through the update (`DeliveryChance`). An
  execution uses up the row's chance, a store turns the update's chance into the
  row's, and each fault pays for both. It needs `DeliveryInv` to know that a
  confirmed update is not delivered again.
- `RemindersDeliveredBounded` (`RemindersBounded`): `ReminderInv`, in the same way,
  with one chance for a pending reminder.
- `MailboxImplemented` (`AtLeastOnce`): every step of the cycle is a step of the
  mailbox or a stutter. `MailboxStutter` covers the steps that leave the mapped
  state alone, `MailboxRow` those that change the row of one update, `MailboxStep`
  puts them together; `ExecutionInv` gives the bounds that the mailbox's guards
  demand of an execution and of a reopening, `SwallowInv` that what is settled was
  executed.

`JobsProofs`. `TypeCorrect` (with `Placed`: each process is where its
program can be), then `NoLockLeaks`: `LocksReleased` is inductive given the types,
as it states exactly which with-blocks a process is inside of. `JobsExclusive`
(`OneRunPerJob`) follows: two processes in the same job would both hold its lock,
or, for a job without one, both hold sync-all (`LocksExclude`).

The portal's part rests on `PortalInv`: the types of variables and locals with what
a run has at each step (`PortalTypes`), and one invariant per property.

- `UsersAreApart` (`UsersApart`): `OwnMeetings` says of what is stored, of what a run is
  about to store and of what the linking has read and will write back that it was
  served to that user, or by the catalog to a section that the user `MayHold`;
  `SectionsFit` says that a bound section was once the only one to fit. `OwedAhead` says that a target without a report is in the
  hands of the job or still on its list.
- `SessionsAreTruthful` (`SessionTruthful`): `HeldIsStored` says that a row which a run
  holds has the status of the stored one, unless the session was opened or closed
  meanwhile (`disturbed`), and that a success about to be written was answered by a
  source. Without the held copies the property is not inductive: the run writes
  back what it has read.

The weather's part rests on `WeatherInv`. `WeatherData` shows for any half hours and
any delays that what a fetch ends up with is whole and of its time.

- `ShownRegionIsRight` (`RightRegion`): `RowFits`, `GetterFits` and `JobFits` say that a row
  has the weather of its key, and what each process carries the weather of the
  region it began with. A row without a key, of an older version, has that of
  the default.
- `DaysAreCovered` (`DayCovered`) follows from the types, which say that no snapshot is of
  its future, and from `TodayOf` and `TomorrowOf`.
- `WeatherIsLostOnlyInRace` (`LostOnlyInRace`) is an action property: `LostOnlyInRaceStep`
  goes through the writers; one that serves the region without a race writes a row
  that still matches it.

`OperatorsProofs`. `TypeCorrect`; `OneTableKept` from `TableInv`, which pins the
deque to the latest launches so that the evicted record can be named; then
`OneInProgressKept` from `ClaimInv`: a recorded action that has not settled holds
the claim of its scope, so two of one scope are the same.

The reports' part rests on `HealthInv`: the types (`HealthKinds`), what a row of a job
can say at once (`AllShaped`), whom a run is about (`OfLinked`), and what rows and
records in the hands of a process owe to the history (`MissedRecorded`,
`BadRecorded`).

- `ReadyUsersAreReady` (`SetupReadyIsTrue`): a last failure that a user has had since the
  login is in the row of the user or in the one record that will be it, and a
  row that shows it is not ready (`Fails`).
- `OperatorsViewsAgree` (`ViewsAgree`) is about readers alone, but holds only of rows
  that the writers can leave: a failed weather run names its error, a timetable
  that tried in vain has failed or fallen back (`Shaped`).
- `FailuresReachTheHeadline` (`FailureReachesHeadline`): `MissedRecorded` carries a
  failure of UClass or the portal from the results of the cycle to the row of user 0.

`BriefsProofs`.

- `AnswersAreTruthful` (`AnswersTruthful`): `TruthInv` says of the file, of what each
  thread has sent and of what it found in the file that the chat has the item;
  no step takes a delivery back (`NothingTakenBack`).
- `MergesLoseNothing` (`DeliveriesRemembered`) is inductive with the types and
  `IdleEmpty`: what a chat received is in the file or in the hands of a thread.
- `DeliveriesAreBounded` (`DeliveriesBounded`): `BoundInv` counts in `Outstanding` what
  a chat has and the threads that still wait to send it, and in `Unrecorded` the
  deliveries that the file does not show, each of them a served thread's or a
  fault's. A request joins the waiting threads only if the file does not name the
  chat, and then the served and the waiting threads are disjoint (`TwoGroups`).

The day brief's part rests on `BriefInv`, of which the lemma `TablesKept` is one half:
whatever is written to the tables gets the second of its writing (`Moved`).

- `StaleBriefsAreOfTheirSecond` (`StaleOnlyInItsSecond`): `Aged` says what a fingerprint
  still tells later. Open tasks only become fewer, as a closed task stays
  closed; so if the tasks are others than those seen, there are fewer than were
  counted, or one was written in the second of the brief or after it.
  `RestSince` and `GroupsSince` say the same of the other rows and of the groups.
  They hold of what is being built and of what is remembered (`RequestFits`,
  `EntryFits`); an equal fingerprint then leaves the one second (`FoundFits`).
- `BriefTypeCorrect` includes that the memory has one brief per request and stays
  within its limit (`WithoutIs`, `AppendedIs`, `StoredIs`).
- `TasksAreShown` (`KeptAreShown`, the first conjunct of `NoTaskHidden`) holds for any rows
  and any groups, of whatever list. A row that stays after the duplicates are dropped
  has a line (`LineOf`), and the line of a task of the brief's first day is of that day
  as no row is from before it, which `RequestFits` says of all that was read. What
  becomes of a row that is dropped is a statement about the fold of `Deduped`, which
  would need an induction; `daybrief` checks it.

`ScheduledDeliveryProofs`. `TypeCorrect` holds the order of dates, rows and notices.

- `LastChoiceDecides` (`AsAskedLast`): `SettingsInv` says that the rows of a slot are
  numbered, at most one per name, and that the last choice is written no earlier
  than any other; so `InForce` picks it (`LastSaidDecides`), unless a row with a
  later id was written in the same tick, which the property leaves open
  (`Overruled`).
- `NobodyPassedOver` (`ChatsServed`): `ChatServed` is what a run owes to the chat it
  is with: every slot is dated, pending, sent or failed.
- `SentOncePerDay` (`OncePerDay`): `SentOnlyByFaults` says that before a row has the
  date of a day, only faults have sent that day's message, except for the one
  that is sent and not yet written. Dates never go back, so a dated row stays so.
- `CountedByOneDigest` (`NoticeCountedOnce`): `CountedOnlyByFaults`, in the same way,
  for each time of a notice against `last_sent_at`.
- `NothingElsePassedOver` (`NoticePassedOver`): `ListComplete` says that a digest in the
  making has every notice after `last_sent_at` on its list that is not excepted
  (`Excepted`), and
  `SentCounts` that one whose send worked has counted its list; so `last_sent_at` moves
  over counted notices only.

`CommandsProofs`. `TypeCorrect` with `Shape` (what the listener holds where) and
`Acting` (the step is in the plan, the plan is valid).

- `AppliedDraftsAreThere` (`AppliedIsThere`): the draft that a process has upserted and
  not marked has its entry (`ApplyingIsThere`), and no step takes an entry away
  (`EntryChanges`, from which `ClosedTasksStayClosed` follows too).
- `CommandsWriteOwnRows` (`OwnRowsOnly`): the drafts in the listener's batch are its
  user's (`ListenerOwn`), and the user stays the same while a batch is applied.
- `RunsAreTruthful` (`RunsTruthful`): `RunUnderWay` says that a run in its plan has had
  as many effects as the actions before its step have (`EffectsBefore`), which are
  all of them behind the last.

`OnboardingProofs`.

- `LinksAreUsedOncePerThread` (`LinkReuseBounded`): `MarksBounded` adds to the marks of a
  link the requests that may still mark it; a link that is used admits no more.
- `UsedLinksAreConnected` (`UsedLinkConnected`): `TokenInv` says what a request has
  written behind each of its steps (`Written`) and that the token of a request
  which owes the row is its own unless two requests overlapped at that key, which
  `torn` records (`OwnToken`).
- `AttemptsAreLimited` (`AttemptsLimited`): `LimitsHold` adds to the rows of a window
  the requests that are past a count; a count that finds fewer rows than its limit
  restores the bound whatever the requests are (`BudgetKept`), and the time that
  passes only shrinks a window.

`UClassSyncProofs`. `TypeCorrect` with `Shape`: what a stage needs, the stage before
has left. `ClosedTasksStay` (`DoneStays`, which no run checks:
`ClosedStaysClosed` of `Commands` is the same question of more writers) is a step of it.

- `RowsNameTheirFiles` (`HashOfFile`): `FileInv` says the same of the rows, of the runs'
  working copies and of the listed rows of a repair (`Facts`), and that a run writes
  alone to a name that is free (`Writing`). It has to speak of the working copies
  because each of them can become the row.
- `SentBriefsAreRecorded`: what a run will push is in a row already, or is the brief
  in hand that the next step records.
- `BriefsAreSentOnce` (`PushesBounded`): `SendInv`. `Sendings` counts a brief's pushes
  and the one that is waiting in a run; `Bound` is the property for it; `Credit`
  says that it is not at the bound while the row is one with which a collection
  would make the brief again (`Settled` is the contrary); and `OnCourse` says it of
  each run: it works on the row that is there unless it is outdated, and where
  it has met a reason to make the brief again, a sending is left to it, or two
  where the file was lost after its check. An outdated run pays for what it
  writes. `Distinct` adds that a run takes each material once.

Only model-checked: liveness, that is `ClaimsEnd`, `CommandsExecuted`,
`RemindersSettled`, `SyncAllEnds`, `PollerKeepsCollecting` and `TimetableArrives`.
Fairness and ENABLED are outside of what TLAPS does; these six hold for the sizes of
section 4, and so does the second conjunct of `NoTaskHidden`. Nothing about recursion or
data that needs an induction is claimed.

## 7. Not modelled

- Database schema and migrations: planned, see section 2. The single queries are
  part of the actions that use them.
- Within modelled components: the bot menu; the commands that only read; the
  review of events, which nothing calls; the HTML scraping of `uclass.py` and the
  remote browser of `onboarding.py`, which nothing reaches any more;
  `_prime_uos_portal_timetable_for_day_if_missing` and
  `record_uos_portal_timetable_fetch_for_user`, likewise;
  `_enrich_uos_portal_events_with_official_catalog`, whose conditions no path meets; the search for the
  materials of a class; the scores by which names of classes are compared; the publication of the
  dashboard's page.
- Left out for good: the wording of messages and LLM answers and the client that
  asks for them, the generation of launchd and configuration files, the GUI,
  keychain and file helpers, static tables.
- Left out of the models' processes: a refresh and a repair of one user at the
  same time (the dashboard's queue tells them apart by their action), and a
  choice of a policy during a run, which counts for the next one.
