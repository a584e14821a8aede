# HyprBlocker: a verification development in TLA+

HyprBlocker blocks websites and applications on a Hyprland desktop, and makes it
hard to undo a block on an impulse. This directory holds TLA+ models of the parts
of it where that promise is decided by the *order* of things: requests that
overlap at an `await`, jobs that act on what they read earlier, processes that
share a file, two services that watch each other, kills and restarts. TLC checks
the models on small instances; TLAPS proves the most important properties for
every instance.

Paths below are relative to the repository, `src/` here being its root.

## 1. The system

### Components

| Component | State it keeps | Operations | Talks to | Modelled in |
| --- | --- | --- | --- | --- |
| Block API, locks, delayed-change queue (`daemon/api/routes/blocks.py`, `pending.py`, `daemon/pending_unblock.py`, `lock_manager.py`, `database.py`) | `blocks` table; `_pending` and its JSON file; `unblock_delay_*` settings | create, update, delete, strict update, extend lock; cancel; the job that applies due changes; the job that resets expired locks | config, scheduler jobs, desktop app and extension through HTTP | `BlockRules`, `BlockControl` |
| Schedules and evaluation (`daemon/scheduler.py`, `blocker.py`, `extension/matcher.js`) | none of its own | is a block active now; is a page blocked; precedence between blocks | reads the table; asked by extension and monitor | `BlockRules`, `BlockEvaluation`, `Browsing` |
| Settings, configuration file, settings lock (`daemon/api/routes/settings.py`, `config.py`, `settings_lock.py`, `time_verifier.py`) | `config.json`, the lock file | change a setting (tightening only while locked), set and extend the lock, ask the network for the time | every other part reads them | parts in `BlockControl`, `WatchdogMesh`, `RootSettings` |
| Watchdog mesh (`daemon/watchdog.py`, `watchdog_runner.py`, parts of `main.py`) | the shared state file; each process's failure counter and timers | spawn, watch the daemon, watch siblings, heartbeat, signal shutdown | daemon by HTTP and systemctl, each other by the file and by pids | `WatchdogMesh` |
| Browser monitor (`daemon/hyprland_monitor.py`, `heartbeat_tracker.py`) | heartbeats per pid and extension instance, grace periods, mismatch counters | receive a heartbeat, check all windows, close windows | extension by HTTP, Hyprland by command | `BrowserMonitor` |
| Root enforcer, attestation (`enforcer/main.py`, `logic.py`, `heartbeat.py`, `daemon/enforcer_link.py`) | challenge, echo and snapshot files; what was verified and when | challenge, verify, kill browsers; echo, fall back to watchdogs | daemon by files | `Attestation` |
| Root enforcer, settings (`enforcer/main.py`, `logic.py`, `daemon/requests_bridge.py`) and break-glass (`enforcer/breakglass_runner.py`, `daemon/grants/breakglass.py`) | lock, policy, judge's policy, pending changes, `breakglass.json`, all root-owned | classify request files, apply or queue, apply what matured; count down and release | the daemon through a directory of request files | `RootSettings`, `DelayedLoosening` |
| Grants and the judge (`daemon/grants/*`, `api/routes/grants.py`) | grant store, audit log | ask for an exception, decide, expire, overlay | an external model, the block evaluation | `Grants`, `Browsing` |
| Browser extension (`extension/background.js`, `matcher.js`, `media.js`) | fetched blocks, the browser's network rules, recent redirects | fetch, turn navigations away, refresh rules, heartbeat | daemon by HTTP | `Navigation`, `Browsing`, `MediaRules`, `BrowserMonitor` |
| Desktop app, tray, native host, pages | views | send requests | daemon by HTTP | their requests are inputs |
| Installation, units, paths, migrations, diagnostics | files | idempotent writes | systemd | not modelled |

### What is hard about it

* **One loop, many awaits.** The daemon is a single asyncio loop and the extension
  a single worker: between two awaits a handler is atomic, across one it is not.
  Lock checks, rows, lists of due changes and lists of browser rules are read
  before an await and used after it.
* **Time.** Locks, delays, grace periods, staleness and schedules compare clocks,
  monotonic, wall and network ones; a change becomes due while something else is
  going on.
* **Several processes, one file, no lock.** Watchdogs and daemon load a whole
  file, change a field, and replace it; enforcer, daemon and runner pass files.
* **Kills and restarts** are the very thing the program defends against.
* **Partial failure.** One change of a pass fails, one fork fails, a time server
  does not answer, a heartbeat is lost, an echo cannot be written.

### What makes each component correct

* Blocks: a locked block only becomes stricter; what weakens a block waits the
  configured time if the delay is on, and only the newest request waits; what
  is due does happen; locks end.
* Root settings: a setting gets weaker only by a request that waited the whole
  delay or by a countdown that ran out, and nothing waits for ever.
* Attestation: only fresh answers count; browsers do not outlive a dead daemon,
  and those of a healthy one are left alone; each side notices the other's end.
* Mesh: any dead process is replaced as long as one is left; disabling ends it;
  the list and the processes agree.
* Monitor: a browser whose extension reports is not found silent, one that stays
  silent is closed, whatever the order of start, heartbeat and check.
* Grants and evaluation: locked blocks win, a grant opens what it names and no
  more, the day's budget holds.
* Extension: a refused page is left; network rules end up right whatever overlaps.

`PROJECT.json` lists the hazards line by line and which property covers each.

## 2. The models

How they compose:

    BlockEvaluation <- Grants  <-\
                    <- Navigation <- Browsing      (what a tab may show)
                    <- MediaRules                  (what a page may load)
    BlockRules      <- BlockControl                (how blocks change)
    DelayedLoosening <= RootSettings               (implements)
    WatchdogMesh, Attestation, BrowserMonitor      (who watches whom)

`<-` is EXTENDS. `MCx` instantiates `x` for TLC, `xProofs` holds its theorems.

### BlockRules, BlockControl

`BlockRules` is pure: a row of the table, an edit, `_is_loosening_update`, what an
immediate and a delayed update store, and what a row enforces (hours times rules).

`BlockControl` is the daemon's side of it, one action per stretch of code between
two awaits:

| Model | Code |
| --- | --- |
| `blocks`, `delay`, `pending`, `nextId` | the table, the two settings, `_pending` with its file |
| `client[c]` | a request in flight: at which await it is, what it will write, and (`saw`, read by the properties only) the row, the lock and the delay it decided on |
| `job` | `apply_due`: the rest of its list of due entries, and what it has set on the row |
| `sweep` | `_reset_expired_locked_until_blocks`: the rows it has read |
| `CheckUpdate`, `CheckDelete` | `check_block_lock`, in a session of its own |
| `Refuse`, `Queue`, `AcceptUpdate`, `AcceptDelete` | the row is read and the request decided: 404 or 400, 202, or a change on its way to the commit |
| `ReadStrict`, `ReadExtend`, `CommitRow`, `CommitDelete`, `Create` | the other handlers and the commits |
| `QueueDelayChange`, `SetDelayNow`, `Cancel`, `CancelAll` | handlers without an await: one step |
| `JobStart`, `JobRead`, `JobWrite`, `JobFail`, `JobPop` | a pass of `apply_pending_unblocks_job` |
| `SweepRead`, `SweepCommit` | the lock part of `schedule_check_job` |
| `Restart`, `Tick` | a new daemon with the same table and queue; a minute |

Abstractions. `websites_media_blocked` and `apps_blocked` are treated by the code
as `websites_blocked` is and are represented by it; days, start and end of a
schedule are the hours they select; names, priorities and invalid enumeration
values are left out. JSON nulls and the empty `lock_until` are modelled, since the
two update paths treat them differently. The lock check reads clock and row in one
step, and reading a row and deciding is one step, as there is no await in between
that another writer could use. The database itself does not fail except as the
schema makes it. A crash falls between steps; queue file and memory agree there
(`_persist` runs before the next await). A failing time server in `extend-lock`
refuses the request and changes nothing. Ids are reused as SQLite does it.

### DelayedLoosening, RootSettings

`DelayedLoosening` is what the root tier promises, without files, ticks or stops:
settings, changes that wait, one override with a countdown. A change taken at once
leaves a setting at least as strict as it was when its batch was opened; any other
takes effect only once it has waited.

`RootSettings` is how the code does it:

| Model | Code |
| --- | --- |
| `lock`, `policy`, `judge` | `secure/lock.json`, `enforcement.json`, `policy.md` |
| `request`, `inbox` | the files the daemon drops in `requests/settings` |
| `pc`, `files`, `seen`, `ntp` | a tick of the enforcer: what it does next, files left, the one reading of the settings and of the clock |
| `pending`, `k`, `keep` | `pending_changes.json`, and the loop over it |
| `trigger`, `asked`, `released`, `cleared` | the break-glass trigger, `breakglass.json`, and a release not saved yet |
| `LockSettings`, `UnlockSettings`, `UpdateJudgePolicy`, `RequestPolicy` | the daemon's routes, and a policy request as `classify_request` accepts it |
| `Tick`, `Settle`, `SchedulePending`, `Unlink`, `Defer` | `_process_settings_requests`, file by file |
| `LoadPending`, `ApplyMatured`, `RewritePending`, `EndTick` | `_apply_matured_pending` |
| `RecordRequest`, `Release`, `SaveReleased` | `run_once` of the runner |
| `Stop`, `StopRunner`, `DeleteTrigger`, `Advance` | a stop between any two writes, the user, an hour |

The refinement mapping (`Promise`) takes the settings in force, those the tick
read, the set of queued entries and the countdown; with development mode on, the
judge's policy counts as unbound, which is what the code means by it.

### Attestation

| Model | Code |
| --- | --- |
| `boot`, `mono`, `shift` | boot id, monotonic clock, what the wall clock is ahead |
| `issued`, `verified`, `present`, `started`, `pc`, `due` | `_issued_nonce`, `_last_verified`, the session's flags, a tick between its reads and writes |
| `challenge`, `echo`, `snapshot` | the three files |
| `pid`, `state`, `turn`, `heard`, `mesh` | the daemon's process (running, held by a signal or a debugger, gone), its schedule check, its fallback |
| `CheckHeartbeat`, `IssueChallenge`, `Decide` | `Enforcer.tick` |
| `ReadChallenge`, `WriteEcho`, `EchoFails` | `schedule_check_job` with `_ensure_mesh_fallback` |
| `EnforcerDies` ... `Reboot`, `SetClock` | the machine and its user |

`well`, `mark` and `down` are history variables: the last event that may get the
daemon suspected, that may put a kill off, and when the enforcer went down; the
bounds are measured from them. `ahead` says that the wall clock was set back since
the snapshot was written: the snapshot then lies in the future, counts as fresh until
a check finds it in the past again, and the fallback comes that much later. What the
two processes do at one instant is ordered by TLC in every way, so an echo that falls
between the tick's look and its new challenge is lost in the model too; such a step is
counted as an event, like a fault, because it may get the daemon suspected.

### BrowserMonitor

| Model | Code |
| --- | --- |
| `open`, `banned` | windows as Hyprland lists them, and those a rule for applications matches |
| `running`, `sent`, `mail` | extensions, their last beat, the beat on its way |
| `tracked`, `firstSeen`, `grace` | `active_browsers`, `_first_seen_pids`, `_grace_period_until` |
| `phase`, `todo`, `idle` | `run_check` between its awaits |
| `Send`, `Deliver`, `Lose` | `sendHeartbeat`, POST `/heartbeat` |
| `BeginCheck`, `LookAt`, `AppsDone`, `Judge`, `CloseBrowser`, `EndCheck` | a check |
| `Die`, `StartUp` | the daemon is killed, the next one begins with an empty tracker |

Time is kept as ages up to the last one the code can tell apart, which makes the
state space finite without a bound on the clock. `credit` counts how many more
beats in a row a profile may lose: a beat is either delivered or uses it up.

### BlockEvaluation, Grants, Navigation, Browsing

`BlockEvaluation` is the decision on a page: patterns as hosts with paths, the
priority bands, who votes, the overlay of grants. The daemon and the extension
implement it each for themselves; the model has both (`Matches`, and `Seen` for
the extension's view without the query). `Grants` adds the log, the limit, the
judge (an arbitrary verdict) and the store; `Navigation` the extension's handlers
for the reports of one tab; `Browsing` puts them together: schedules and locks
change, grants come and go, the extension fetches and redirects.

| Model | Code |
| --- | --- |
| `log`, `store` | the audit log's requests of a day, `grants_active.json` |
| `RequestGrant`, `Allows`, `EnforcedTarget` | `request_grant`: record, denylist, limit, judge, scope |
| `Overlay`, `Served` | `overlay_blocks` in `get_blocked_sites` |
| `data`, `cache`, `waiting`, `redirects` | `blocksData`, the tab's `recentBlocks`, handlers behind the media refresh, calls of `tabs.update` |
| `Report`, `ReportStart`, `Resume`, `Update` | the listeners, `handleNavigationBlock`, what the browser does with the redirect |

### MediaRules

| Model | Code |
| --- | --- |
| `served`, `blocks` | what the daemon would answer, `blocksData` |
| `dynamic`, `session` | the two rule sets of `declarativeNetRequest` |
| `refresh[s]` | a run of `refreshMediaNetRequestRules` and what it read at its earlier awaits |
| `Begin`, `ListDynamic`, `RemoveDynamic`, `AddDynamic`, `Classify`, `ListSession`, `ReplaceSession` | its stretches between two awaits |
| `BuildDynamic`, `BuildSession`, `MediaTabs`, `AllowTabs` | `buildDynamicMediaRules`, `buildSessionMediaRules` and their arguments |
| `Stripped` | which rule the browser applies: priorities as `media.js` gives them |

The pairs of rules for request types and addresses of videos are one rule here; the
rules for content networks, which only add to them, are left out.

### WatchdogMesh

| Model | Code |
| --- | --- |
| `file` | `watchdog_state.json`: the age of each listed heartbeat, `shutdown_requested` |
| `status`, `parent` | the processes; a dead watchdog nobody waits for is a zombie, and signal 0 reaches it |
| `wd[p]` | a watchdog: place in its loop, the copy it loaded, siblings to fork, failed looks, own heartbeat's age |
| `daemon` | what the daemon is doing and for which request, its copy of the file, `_watchdog_manager`, `_shutdown_prevention_cache` |
| `config`, `locked`, `covered` | the saved settings, the settings lock, `enforcer_alive` |
| `Leave` ... `SaveBeat` | one iteration of `Watchdog.run` |
| `Boot`, `Spawn`, `ScheduleCheck`, `SaveFlag`, `StoreConfig` | `lifespan`, `spawn_watchdogs`, `_ensure_mesh_fallback`, `signal_shutdown`, `save_config` |
| `EnableWatchdogs` ... `DisablePrevention` | PUT `/watchdog` and `/shutdown-prevention` |
| `Stop`, `Obeys` | SIGTERM and the daemon's shutdown |
| `Kill`, `KillDaemon`, `SystemdStarts`, `Lock`, `Unlock`, `EnforcerChanges`, `Tick` | the surroundings |

A load and the save that follows are separate steps everywhere but in the start
of a mesh, which uses nothing of what it loads; the rename makes one save atomic.
`Ends` hands the children of a dead process to systemd, which waits for
them. The unit has `KillMode=process` and `SendSIGKILL=no`
(`install.sh`), so watchdogs survive their daemon and a daemon that ignores SIGTERM
survives `systemctl restart`, which then times out.

Abstractions. The clock counts half minutes, the heartbeat interval; what a loop
does within seconds happens between two ticks. The three parts of an iteration
are taken in the loop's order although their intervals differ (5, 10, 30 s). The
failure counter stops at the threshold. A look that fails during the daemon's
startup counts as one that failed before it. Names of processes, the check of the
enable symlink and a change of `watchdog_count` are left out, and so is what
systemd does after its own stop timeout. `EnforcerChanges` is what `Attestation`
makes of the enforcer's snapshot.

## 3. The runs

| Run | Asks | Instance |
| --- | --- | --- |
| `serial` | With one request at a time beside both jobs and a restart: a locked block only tightens, what weakens a block or the delay waits, strict requests take nothing off, also when the job rewrites the block in between; one waiting change per target and none while the delay is off | 1 block (open or locked), 7 edits, 2 strict ones, 3 bodies of the delay's settings, time 0-2, 2 queued changes, 1 restart, offsets not negative |
| `overlap` | Types; `PATCH /strict` keeps a lock set after it read the row | 2 requests in flight (symmetric), 4 edits, time 0-2 |
| `live` | Due changes leave the queue, expired locks are reset | edits that the table refuses among them |
| `mesh` | The list keeps its size; a settled flag is not lost | 2 watchdogs, 2 events, 1 overlap of a load with another's load and save |
| `mesh_live` | A settled flag ends the mesh; dead and zombie watchdogs are replaced; the daemon comes back | 2 watchdogs, any 1 event, `systemctl` may fail once, a root enforcer that comes or goes |
| `root_settings` | The refinement of `DelayedLoosening`; requests, due changes and countdowns are dealt with | 2 files, 2 acts of the user, 1 stop, hours 0-3, delays of 2, started unlocked or with an unreadable lock in development mode |
| `attestation` | Fresh proofs only; a bound on browsers without a daemon; no false suspicion on either side; the fallback comes | times 0-6, tick, check and the link's limit all 1, staleness 3, 2 events, the wall clock set 3 ahead or 1 back |
| `monitor` | A heard browser is not found silent; unwanted windows, guests' among them, are closed | 1 browser, 2 windows of it, another application, 4 events, 1 lost beat tolerated |
| `browsing` | Locks win, grants open what they name and nothing else, the budget holds, refused pages are left | 2 blocks, 3 pages, 3 URLs to ask for, limit 2, 2 moves of user, schedule, lock or failure |
| `media` | Rules settle; an up-to-date refresh uncovers nothing | 2 tabs, 2 hosts, a host-wide list and a catch-all, 3 moves, a refresh for the fetch and one for navigations in flight |
| `lock_loosened`, `mesh_lost_flag` | violations, see section 6 | |

Why the bounds are enough. Every hazard of the block queue needs at most two actors
and one other entry: a block, a change that waits, a request or a pass that is half
way through; two minutes are enough for a lock to be in force, to end and to be seen
expired, and for a delay of one to begin and end. Two watchdogs already see the same
dead sibling (one is forked by the other) and overwrite each other's saves; `Budget`
says how many faults and requests may happen and how often another load falls
between a load and its save, and TLC takes all orders of them. In `root_settings`
two files are one that tightens and one that loosens in one tick, or one of each in
two ticks around a maturity; one stop separates any two writes. In `attestation` two
events are a death and a restart, or a hang and its end, and the horizon is longer
than staleness, grace and two ticks together; the link's limit is one slowest tick,
as in the code. In `monitor` every age at
which the code changes its mind is reached, and there is no bound on time. Limit and
priority in `browsing` make each verdict possible: within and over the limit, low
block, high block, both. `media` needs two lists to make one refresh stale beside
another.

In `serial` the requests leave the schedule alone, because the classifier does not
look at it (see section 6). Its edits and strict requests are chosen so that the job,
between a request's read and its commit, can add to a list what the commit then takes
out again: the properties of commits are met by such lost updates too.

`CHECK_DEADLOCK FALSE` stands in the runs of `BlockControl`, `RootSettings`,
`Attestation` and `BrowserMonitor`: when the clock or the count of events has
reached its bound nothing need be left to do.

### Fairness

* `BlockControl`: weak fairness of the two jobs. APScheduler calls them again and
  again (5 and 10 seconds) and the loop resumes them. Nothing is assumed of clients
  or of the clock.
* `WatchdogMesh`: weak fairness of each watchdog's loop and of the daemon's own
  work, strong fairness of the clock: loops sleep between iterations, so the
  moments when all are between two of them keep coming, but each is soon over.
  Nothing is assumed of systemd, of the lock's end or of the root enforcer.
* `RootSettings`: weak fairness of the enforcer's steps and of the runner's, strong
  fairness of time, which stands still while a tick or a pass is under way, and of
  the two steps that need a time server. Both services run on timers, and servers
  that are asked again and again answer some time.
* `BrowserMonitor`: weak fairness of heartbeats (alarms), of the check (an interval
  job), of the daemon's start (`Restart=always`) and of time.
* `Browsing` and `MediaRules`: weak fairness of what the worker has begun and of the
  browser's answers; in `MediaRules` also of the periodic fetch (an interval of a few
  seconds). Nothing is assumed of the user.

`Attestation` states its bounds as invariants over explicit clocks and needs none.

## 4. What is proved

Every safety property that a run checks is a theorem as well, for every value of the
constants; TLC alone answers for liveness. What is assumed of the constants is what
the modules name: their types; delays, limits and cadences that are not empty; and
where a bound on time depends on it, that the program's periods fit each other:

| Assumption | In the code |
| --- | --- |
| `PaceAssumption`: the slowest tick is within the link's staleness, the quickest tick and a check together within the staleness of an echo, three checks within two of these | 120 <= 120, 5 + 10 <= 90, 30 <= 180 seconds |
| `MeshAssumption`: a watchdog writes its heartbeat before its siblings give it up | 30 <= 60 seconds |
| `GrantsAssumption`: the day's limit is positive | 3 |
| `MediaAssumption`: finitely many tabs | |

`BlockControlProofs`, from one inductive invariant `IInv`:

* `TypeCorrect`, `OneChangePerTarget`, `OffMeansEmpty`: `TypeOK`,
  `OnePendingPerTarget` and `NothingWaitsWhenOff` always hold.
* `ApplyOnlyWhenDue`, `DelayLoosensOnlyAfterWait`: the job applies only what has
  waited, and the delay is weakened only by what has waited.
* `StrictNeverUnlocks`: a strict request keeps the lock that is there at its
  commit.
* `StrictNeverLoosens`, `LooseningMustWait`, `LockedNeverLoosens`: a strict request,
  a request decided while the delay is on, and any request to a block that was locked
  when it was first looked at, take off a block nothing that they saw there; a lock
  ends no earlier than the one seen or the one found. The second assumes that no edit
  touches the schedule, the third that no time is sent with an offset west of
  Greenwich; section 6 says what happens otherwise.
* `AcceptedEditTightens`: an edit that is not classified as loosening and leaves
  the schedule alone takes nothing off a block. So the schedule columns are the
  *only* gap of `_is_loosening_update`.

All hold for any number of requests in flight. That is why the properties of commits
speak of what a request *saw*: a row may be rewritten between read and commit, by the
job or another request, and a column written back then loses what was added in
between. What survives, whatever overlaps, is all that was in force both when the
request decided and when it commits; with nothing in between that is all there was.
The argument goes by columns: `Tightens(old, d)` says of each column the edit writes
that it leaves `old` in force, and columns the edit does not write are those of the
row it meets.

The two invariants of the queue need each other and the types; the action
properties need more. A pass of the job works on a copy of its entries, which the
queue may have lost or replaced meanwhile, so that nothing said of `pending` tells
anything of them. `IInv` therefore says of the copy itself that its entries have
waited (`created < effective <= now`) and that the job stands at an await only while
it has an entry in work, and of a request about to commit what its edit does to the
row it saw.

`WatchdogMeshProofs`:

* `TypeCorrect`: `TypeOK`, zombies and parents included.
* `MeshSizeIsKept`: `MeshKeepsSize`. Daemon and watchdogs overwrite each other's
  saves, so nothing can be said of the file alone; the invariant (`Data`) says of the
  file and of every copy somebody holds that its list is empty or has the size of a
  mesh, counting the siblings its owner is still to fork. A fork then has to make as
  many processes as it was asked for, which is a fact about the lowest unused pids.
* `SettledFlagSticks`: once the shutdown flag is in the file and in every copy that
  somebody is about to save, only the start of a new mesh takes it back, for any
  number of watchdogs, faults and overlaps. So the window in which a flag can be
  lost is exactly a load that began before it.
* `NewWatchdogsStartFresh`: the invariant it needs. A forked process begins with
  nothing loaded; without it a pid could come back with an old copy in hand.

`RootSettingsProofs`: `TypeCorrect`, and

* `PromiseKept`: `Spec => KeepsPromise`, the refinement. Each action maps to a step
  of `DelayedLoosening` or to a stutter: the tick's reading to `OpenBatch`, a file
  applied at once to `Tighten`, a queued one to `Ask`, a matured one to `Loosen`,
  the rewritten queue to `Leave`, the runner to the override.
* The inductive invariant `Inv` adds to the types what the mapping rests on: `keep`
  holds entries of the queue, and all that the loop has passed and found not due
  (without it, rewriting the queue could drop an entry that has not waited); the
  tick's time is the true one; within a tick the policy is not weaker than when it
  was read, since a partial request is merged onto the policy as it is by then; a
  pass of the runner that has cleared the lock had a countdown that was over.

`AttestationProofs`:

* `TypeCorrect`, and `ProofsAreNew`, from an invariant on the nonces: every one that
  is issued, published, heard or echoed was made before, so a new one is in no file
  yet, and an echo of the one issued was written in this boot and since that was made.
* `DeadIsCaughtInTime`, `HealthyKeepsBrowsers`, `AliveIsBelieved`, `FallbackInTime`:
  the four bounds on time, from one invariant (`TimeInv`) over the deadlines of the
  two loops. Each variable that holds a time is bounded by the deadline of the step
  that renews it, and a disturbance moves `well` or `mark` and so all that is measured
  from them. For the healthy daemon it follows the challenge around: published at a
  tick, read and echoed by the next check, verified by the next tick, each hop late by
  at most one period. For the fallback, the snapshot's age on the wall clock equals
  its age since boot unless the clock was set, and `ahead` covers the one direction
  that makes it younger.

`BrowserMonitorProofs`: `TypeCorrect`, and `HeardSpared`: provided
`(Tolerance + 1) * BeatEvery <= Timeout`, no check finds a browser silent whose
running extension this daemon has heard, since `HeardInTime` keeps the age of its
last heartbeat below what lost beats account for.

`BrowsingProofs`:

* `LocksWin`, `GrantsOpen` and `OnlyGrantsOpen`, for all blocks, priorities, patterns
  and grants. The overlay changes nothing but allow lists, so the same blocks vote;
  the rest is what an allow list does to a vote.
* `BudgetIsKept`: the log is oldest first (`LogOk`), so the entries whose day has
  passed are a prefix and dropping them only shifts the rest. A request is given only
  below the limit, and the entries given are counted through the shift.
* `TypeCorrect`.

`MediaRulesProofs`: `TypeCorrect`, whose invariant bounds the ids of session rules by
the number of tabs, and `RefreshIsSafe`: a step of a refresh whose data is current
leaves a stripped tab stripped. A refresh replaces all rules of tabs at once and the
host rules one by one in between, and a tab with its own rule needs no host rule.

Only model-checked: what must *happen*, under fairness (TLAPS has no liveness beyond
PTL, and no ENABLED): `DueChangesLeaveQueue`, `ExpiredLocksAreReset`, `FlagEndsMesh`,
`DeadIsReplaced`, `DaemonComesBack`, `RequestsAreHandled`, `WaitingEnds`,
`UnwantedIsClosed`, `GuestIsClosed`, `NavigationIsBlocked` and `MediaSettles`. The
violations of section 6 are TLC's as well.

## 5. How to run

    tlc -config serial.cfg MCBlockControl
    tlc -config root_settings.cfg MCRootSettings
    tlapm RootSettingsProofs.tla

and so on; `PROJECT.json` ("runs") names the module of each configuration. The
longest runs, `browsing` and `media`, take two to three minutes with two workers.

The operators marked `Faulty:` are not used by any specification. Each is a wrong
version of the definition under it, and putting it in that definition's place breaks
a property of a run (`PROJECT.json`, "mutants").

## 6. Where code and documents disagree

With a run:

* `lock_loosened` (`README.md:28`): a request to clear the lock, taken while the
  lock had run out, waits its delay and clears whatever lock is set by then.
* `mesh_lost_flag` (`docs/WATCHDOG.md:48`): a watchdog's save of an older copy erases
  the shutdown flag.

Found with the models, without a run kept for each. Blocks:

* `apply_due` collects the due entries once; one that is canceled or replaced during
  an await of the pass is applied all the same (`pending_unblock.py:304`, against
  its own line 4).
* A change queued before a lock is applied during the lock (`README.md:187`).
* A lock set between an update's check and its commit does not stop it (the check
  has a session of its own, `blocks.py:141`); `LockedOnlyTightens` speaks only of
  locks that were there when the request first looked.
* The settings change that turns the delay off empties the queue, but not the list
  of the pass it is part of: block changes behind it are still applied.
* Lists are written whole: of two strict requests that read the same row the later
  commit removes what the earlier one added, and a request that read its row before
  the job's write of a due change undoes that change, strict and accepted edits too.
  The properties of commits are stated so that they hold beside it.
* A lock extended after the reset job read the expired row is cleared by its commit.
* Moving an always-on block onto a schedule is not classified as loosening.
* `extend-lock` compares in UTC and stores the time without its offset: with a
  negative offset a lock can end earlier.
* A queued update with an empty `lock_until` fails at each pass and stays queued.

Mesh:

* Killed watchdogs stay zombies of the daemon and answer signal 0, so the job never
  starts a new mesh (`main.py:178` says it does).
* Two watchdogs that count failed looks each restart the daemon; the second may hit
  a daemon that is up again (`docs/WATCHDOG.md:28`).
* A failed fork costs the mesh a place for good, as the list is what is counted.
* A mesh enabled through the API is not known to `main.py`'s manager: the next job
  starts a second one. A restarted daemon does so as well.
* The signal handler's copy of the prevention setting is off until the first
  schedule check, and stale for up to ten seconds after a change.

Root tier:

* No route drops a policy request, though the enforcer classifies them. A partial
  one is classified with the defaults in the fields it leaves out, and merged onto
  the policy in force.
* `released` is never reset, so there is one break-glass countdown per installation
  (`breakglass.py:4`); the runner writes `requested_at` as a number, no release date,
  and a file only root can read, so the status page shows neither of its two states;
  `breakglass.py:15` says the file's mtime is trusted, the runner uses its own clock.
* Staleness of an echo is measured on the monotonic clock, the age of the snapshot
  on the wall clock; a clock set back keeps a dead enforcer alive for that long.
* `_issued_nonce` is set also when the challenge could not be written; an exception
  earlier in `schedule_check_job` skips the echo; a compositor that flickers renews
  the login grace; watchdogs started as a fallback are not taken down.

Monitor:

* A window opened between two heartbeats is counted as unmonitored at two checks
  before the extension's next report, and its browser's window is closed, although
  `hyprland_monitor.py:155` says the count of two is there to avoid that.
  `HeardIsSpared` is about silence only because of it.
* All profiles report the same `chrome.runtime.id`, so they overwrite each other's
  entry. After a restart of the daemon the tracker is empty, and the grace of a new
  browser (10 s) is shorter than the interval of heartbeats (30 s).
* A count of zero reads as none: a browser with guest windows only is never compared.

Grants and the extension:

* A request is recorded before the limit is counted and counts itself: a limit of
  three admits two (`ratelimit.py:82`); lines of the log that cannot be read, and
  requests that could not be written, count nothing.
* The extension drops the query before it matches (`matcher.js:318`), the daemon
  keeps it, and `matcher.js:14` says they must agree: a grant narrowed to an address
  with a query opens nothing. `GrantOpens` says so.
* A grant for a whole site is not overlaid on a block that lists only a path of it.
* Redirects of safe search are not deduplicated: a late one brings back a page just
  turned away, and the two-second memory then skips it. `NavigationIsBlocked`
  leaves such pages out. A page turned away and opened again within two seconds
  stays open; a redirect that fails is not tried again; a late one can hit the page
  the user has moved to; open tabs are not looked at again when blocks change.
* Under a media catch-all, a host's allow rule outranks the tab's own block rule
  (`Overruled`), and an allow for a path is no hole in the rule for its host
  (`HostWide`).
* A refresh begun under older blocks may add its rules after a newer one, until the
  next fetch, seconds later, puts them right.

## 7. Not modelled

* Clients (desktop app, tray, extension pages, native host) decide nothing: their
  requests are the inputs of the models.
* Installation, system assets, paths, units, migrations and the dry-run tool have no
  protocol: idempotent writes, or one-time changes before any handler runs.
* The denylist's regular expressions, the external model and the scan of `/proc` are
  arbitrary answers. The tier of grants that runs commands is left out.
* Routes that only store a value in `config.json`, the user layout of the settings
  lock, and a crash inside a write that is not atomic (`config.py:131`,
  `pending_unblock.py:146`): what is then read is the defaults, which are the weakest
  settings, or an empty queue.
* Wildcards inside a pattern, schedules across midnight, and the extension's rules
  for content networks.
