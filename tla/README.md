# Ortus: queues, campaigns and follow-ups, specified and proved

Ortus drives LinkedIn accounts from a fleet of cloud pods and from a desktop
app. Each account lives in a GoLogin browser profile, and the rules of the
system are of one kind: a profile drives one browser at a time, a person is
invited, introduced and written to once, an account sends no more than its day
allows. This directory specifies in TLA+ the parts of the program that keep such
rules when pods race, crash and restart, checks them with TLC, and proves the
central results with TLAPS.

    tlc -workers 2 -config ScrapeQueue_faults.cfg MCScrapeQueue.tla
    tlapm CampaignSend_proofs.tla

## 1. The system

Paths are relative to the repository. Three programs share it:

* **The cloud engine** (`engine/`): a Node process, run as several pods under
  Kubernetes. Frontend pods serve HTTP and WebSocket; worker pods run browsers
  for scrapes or campaigns; KEDA starts and stops workers.
* **The desktop app** (`server.js`, `src/`, `public/`, `electron/`): Electron and
  Express on the operator's machine. It runs campaigns locally and hands others
  to the engine.
* **Services** (`services/`): a Sheets gateway and a follower-growth roster.

### Components, their state and their operations

| component | state | operations | what makes it correct |
|---|---|---|---|
| Scrape queue over Redis: `engine/queue-redis.js`, `engine/redis-store.js` | Redis: jobs, waiting list, running hash, active list, profile locks with a TTL, account counters and the list KEDA reads. Pod: live scrapers, the claim flag | submit, claim (Lua), status update, finish, heartbeat, reap orphans, cancel queued, drain | one scraper per profile on all pods; a job claimed once; orphans are finalized; counters match the work |
| In-memory scrape queue: `engine/queue.js` | jobs, queue, running scrapers, draining flag | submit, tick, finish and its cascades, pause, resume, stop, drain | cap, one per profile, FIFO per profile, no idle slot |
| Campaign worker: `engine/campaign-worker.js` | a turn: account, lead, credit | take an account, send to its leads, park it | a lead is contacted once; daily cap; one session per account |
| Campaign store: `engine/campaign-store.js` | Postgres: campaigns, leads, tasks, connections. Redis: account locks, daily counters, parks, sent marks | atomic claims, marks, reapers | no lead or task is lost or taken twice |
| Campaign runtime and scheduler: `engine/campaign-runtime.js`, `engine/campaign-scheduler.js` | campaign status, due tasks | poll campaigns, end of sending, claim, run and settle tasks | stops take effect; tasks finish; handlers exclude each other on an account |
| Acceptance and introductions: `engine/campaign-bulkcheck-core.mjs`, `engine/campaign-autointro.js` | stages of the rows, connections, sent marks | sweep an account, match, stamp, introduce | one introduction per row, from an account that is connected; every accepted row gets its outcome |
| Desktop follow-ups: `src/primary-task-runner.js`, `src/primary-tasks.js`, board routes of `server.js` | `primary-tasks.json` | enqueue, drain, park, retry, hold, discard, restore | one send per follow-up; what was discarded stays so; nothing stuck in progress |
| Desktop campaign loop: `src/campaign.js`, `src/campaign-loop-guard.js` | leads, account queue, counters, `state.json` | run, turn, pause, stop, bench, park, retry | no lead taken twice, daily cap, no account lost |
| Desktop browser slots: `src/browser-semaphore.js`, `src/resource-monitor.js` | count, waiters, limit | acquire, release, give up, lower the limit | never above the limit, no slot lost |
| Desktop sheet outbox: `src/sheet-write-outbox.js` | persisted entries | enqueue, flush | per-row order, nothing lost |
| Desktop campaign queue: `src/campaign-queue.js` | queued campaigns | append, pop the next | none lost, none started twice |

The remaining components (page automation, sheet formatting, UI, identity,
services) are listed in `PROJECT.json` with the reason they are left out.

### How they interact

Pods of the engine share nothing but Redis and Postgres. A frontend submits jobs
to the Redis queue and cancels queued ones; workers poll it every few seconds.
Every pod renews the locks of its own jobs and sweeps for orphans of dead pods.
Live updates and pause, resume and stop travel by pub/sub, with no delivery
guarantee. Campaign turns, acceptance sweeps, follow-ups and scrapes take the
*same* `sn:proflock:` lock, so they exclude each other on a profile. When all its
leads are claimed a campaign goes from sending to monitoring: rows of
`campaign_tasks` then bring its acceptance and reply checks, its follow-ups and
accepted invitations to whichever pod claims them. In the desktop app the campaign
loop, the follow-up runner, the board and the timers share one Node process,
one set of browser slots and a few JSON files, which each of them loads, edits
and saves with awaits in between.

### What is hard

Every store call of a pod is a separate round trip, and other pods act between
two of them; Lua scripts and single SQL statements are the only longer atomic
steps. Pods are killed at any point. Locks are leases. Replies get lost and
commands are sent again. Timers overlap with requests. A message that LinkedIn
has accepted cannot be taken back by a failed write. `PROJECT.json` lists the
concrete hazards under `hazards`, each at its line, with the properties that
would show it going wrong, or with the reason none does.

## 2. Modules

| module | models |
|---|---|
| `ProfileQueue` | the promise of either scrape queue to its callers: a job is queued once, started at most once and never beside another job of its profile, and never comes back after its end |
| `ScrapeQueue`, `MCScrapeQueue` | the distributed queue; its instances for TLC |
| `ScrapeQueue_proofs` | its theorems |
| `JobQueue`, `MCJobQueue`, `JobQueue_proofs` | the in-memory queue; its instance; its theorems |
| `SeqLemmas` | lemmas on sequences (distinctness, append, concatenation, cutting) and induction over them |
| `CampaignSend`, `MCCampaignSend`, `CampaignSend_proofs` | the sending phase of the cloud campaigns; its instances; its theorems |
| `CampaignTasks`, `MCCampaignTasks`, `CampaignTasks_proofs` | a cloud campaign after its invitations: tasks, scheduler, handlers, operator; its instances; its theorems |
| `Acceptance`, `MCAcceptance`, `Acceptance_proofs` | which rows a sweep stamps and introduces; its instance; its theorems |
| `PrimaryTasks`, `MCPrimaryTasks`, `PrimaryTasks_proofs` | the desktop's follow-ups: file, runner, campaign, board; its instance; its theorems |
| `DesktopSend`, `MCDesktopSend`, `DesktopSend_proofs` | the desktop's send loop with its slots, `state.json` and sheet outbox; its instance; its theorems |

`CampaignSend`, `CampaignTasks` and `Acceptance` are three views of one campaign
that meet in the account lock and the lead's row. `CampaignTasks` contains the
turns of `CampaignSend` as far as its handlers can notice them (they hold a lock
and renew it), and takes from `Acceptance` only that a sweep stamps some leads.
An operator named `X_Something` after "Mutant:" is a plausible bug of the
operator `X` that follows it; no specification uses it.

### ScrapeQueue

*Grain.* One action is one Redis round trip (a command, a `pipeline().exec()` or a
Lua script) with the synchronous JavaScript around it. A pipeline is one step
because the client sends it in one buffer, which Redis works off command by
command before it turns to another client; this is an assumption on Redis and the
network (a pipeline is not a MULTI).

*State.* `jobState`, `waiting`, `running`, `active`, `lock`, `acct` and `scale`
are the Redis keys `sn:jobs`, `sn:waiting`, `sn:running`, `sn:active`,
`sn:proflock:*`, `sn:profactive:*` and `sn:scaleaccounts`. `local` is
`localScrapers` with `localMeta`; `slots` the budget left in the claim tick in
flight (`_claiming` is `slots > 0`); `reply` a job the script has claimed and the
pod has not heard of; `stage` the position of a job's owner in `_runJob` and
`finishJob`; `adding`, `update`, `sweep` and `reap` the local variables of the
calls that take several round trips.

| code | actions |
|---|---|
| `addJob` | `Submit`, `Activate` |
| `_claimTick`, `CLAIM_LUA`, `_runJob` start | `ClaimTick`, `ClaimNextJob`, `ClaimNothing`, `RunJob` |
| status handler, `updateJob` | `UpdateRead`, `UpdateWrite` |
| `_runJob` end, `finishJob` | `FinishWrite`, `ReleaseLock`, `FinishDeactivate`, `Leave`, `FinishRejected` |
| `heartbeat` and lock TTL | `LockExpire` with `Heartbeats` |
| `_reapTick`, `reapIfOrphaned` | `ReapCheck`, `ReapClaim`, `ReapRemove`, `ReapDeactivate`, `ReapRead`, `ReapWrite` |
| cascades, `removeFromQueue` | `SweepList`, `SweepRemove`, `SweepDeactivate`, `SweepMark`, `SweepEnd` |
| SIGTERM, SIGKILL, restart, lost reply | `DrainStart`, `DrainEnd`, `Kill`, `Start`, `ReplyLost` |

*Abstractions.* Job JSON is its state field. A TTL is a step that may happen as
soon as nobody renews the lock; it says nothing about how long that takes. The
cascade a scraper triggers (sheet permission, rate limit) is one of the sweeps any
pod may start. A job without a profile id does not occur (server.js always fills
one in). Finished jobs are not pruned.

*Two assumptions are constants.* `LeaseMayLapse = FALSE`: a live pod renews its
locks within the TTL (the code heartbeats several times per 120 s; with TRUE,
`ProfileExclusive` fails, as it must for any lease without fencing).
`SlowReplies = FALSE`: a command sent long before another on one connection is not
still outstanding when a scrape ends or a TTL runs out: a scrape takes minutes, a
round trip milliseconds.

### JobQueue

JavaScript runs one call to its end before the next, and every call of
`queue.js` that frees a slot or adds a job ends in `_tick`. So an action is a
whole call with its tick: `Add`, `Finish` (with the rate-limit cascade before the
tick), `SheetError`, `PauseFor`, `ResumeFor`, `StopFor`, `DrainStart`, `Exit`.
`state` is `job.state`; what a scraper reports while it runs decides no branch and
counts as running; "limited" is an error whose text names the rate limit, "lost" a
job forgotten at exit. `Tick` states declaratively what the loop in `_tick` picks:
the first waiting job of every idle profile, oldest first, up to the budget.

### CampaignSend

A *pass* is one execution of `processCampaign`; `pass[x]` holds its local
variables and those of its current turn. `status`, `lead`, `marks`, `lock`,
`credit` and `resting` are the campaign and lead rows in Postgres and the Redis keys
`cmp:sent:*`, `sn:proflock:*`, `cmp:dailycount:*`, and `cmp:park:*` with
`cmp:turncd:*`. `invites` and `sends` are what LinkedIn has seen; `late` counts
invitations after a stop.

| code | actions |
|---|---|
| `POST /start`, stop, resume, restart | `CreateCampaign`, `AddLeads`, `SkipActioned`; `Stop`, `Resume`, `Restart` |
| `tickCampaigns`, `processCampaign` | `Poll`, `Begin`, `SkipBegin`, `Final`, `Transition` |
| `runCampaign` | `More` |
| `runTurn`: choice of an account | `CheckAccount`, `NoneFree`, `AcquireAccount`, `OpenSession` |
| `runTurn`: one lead | `ReadStatus`, `ClaimNextLead`, `NoLeadLeft`, `SkipDuplicate`, `NotActioned`, `TakeCredit`, `NoCredit`, then `Sent`, `AlreadyConnected`, `BackOff` or `Fails`, then `Mark`, `Stamp` |
| `runTurn`: finally | `ReleaseAccount`, `Cool` |
| `_boundCampaign`, errors, SIGTERM or kill, TTLs | `Abandon`, `StoreFails`, `PodExit`, `LockExpire`, `RestEnds` |

*Grain and abstractions.* One action per store call, with the exceptions its header
names. A pass that returns at its *first* idle round stands for one that waits up
to `maxIdleRounds`. Dead session, weekly cap and 429 are one outcome (`BackOff`):
the lead goes back and the account is parked or not; how often and for how long
decides nothing else. `BackOff` presumes that LinkedIn refused the invitation; an
error after an accepted one is `Fails`. The lock lapses only when no turn renews
it (30 s heartbeat, 120 s TTL). `Restart` makes one step of the UPDATE that skips actioned
leads and the UPDATE of the status (`campaign-api.js:360`, `:362`), and leaves out the new
daily limit it may set (`:343-354`): `LimitOf` is a constant, so `DailyCap` speaks of a day
with one limit. A day does not end: `worker.today` is fixed per pass,
so one that runs over midnight counts on the old day's key.

### CampaignTasks

One campaign, all of its durable tasks, and in every pod one scheduler that runs
one handler at a time (`job[p]`: the handler's position and locals). `row` is the
status column of `campaign_tasks` with time folded in: "waiting" is pending with a
due date ahead, "overdue" is claimed more than ten minutes ago. `lock` is
`sn:proflock:*`, `stage` what a lead's row has come to, `marked` the durable marks of
introductions and follow-ups; `intros` and `fus` are what LinkedIn has seen. `lapses`
counts, per account, the locks that ran out under a handler at work.

| code | actions |
|---|---|
| `transitionToMonitoring`, stop with `keepMonitoring` | `PassEnds`, `KeepMonitoring`, `FinishTransition` |
| stop, pause, resume, restart; check-now; automatic checks | `Stop`, `Resume`; `CheckNow` with `ArmMonitor`; `AutoChecks` |
| `claimNextDueTask`, `markTask`, `rescheduleTask`, `reapOrphanedTasks` | `BecomeDue`, `ClaimNextDueTask`, `Settle`, `ClaimAges`, `ReapOrphanedTasks` |
| `handleMonitor`, `runBulkCheck` | `BeginMonitor`, `NextAccount`, `RunBulkCheck`, `CheckFails`, `Close`, `NoAccountLeft`, `MonitorTail`, `ExpireMonitoring` |
| `runAutoIntros` | `PrimaryGate`, `PickLead`, `NoLeadLeft`, `SendIntro`, `AlreadyMade`, `SendFails`, `BrowserDies`, `StampIntro`, `MarkIntro`, `QueueFollowUp`; `StoreFails` |
| `handleReplyCheck` | `BeginReply`, `ReplyTail` |
| `handleFollowUp`, `handleAccept`, `withAccountSession` | `WasActionSent`, `TakePrimary`, `Act`, `ActFails`, `MarkFollowUp` |
| turns and scrapes on the same accounts, TTLs, kills, KEDA | `TurnTakes`, `TurnLeaves`, `LockExpires`, `LockLapses`, `Kill`, `ScaleDown`, `PodStarts` |

*A lock that lapses.* The handlers of tasks do **not** renew the lock they take, and a
sweep takes minutes. So `LockLapses` takes the lock from a handler at work, after
which a turn, a follow-up or a second sweep may open another browser on the account, and the
first handler may release the lock of a later one of its pod. The properties count it:
`AccountExclusive` allows one driver, and one more for each lapse of the account's lock;
`IntroBudget` one introduction, and one more for each fault and each such lapse.
`MaxLapses` bounds the number for TLC only.

*Assumptions as constants.* `SlowFollowUps = FALSE`: a follow-up, one message, does not take
longer than the ten minutes of its claim (with TRUE, it is reaped while its handler lives, and
`FollowUpBudget` fails). Nothing else is assumed of how long a handler takes.
`OthersActive`: another campaign keeps KEDA from scaling to zero; the safety run
has it FALSE, so that pods also leave, the liveness run TRUE.

### Acceptance

One campaign's rows in the order of the sheet, each with its person, URL, sender (or
`NoAccount`, when the sheet names none) and the identity keys it carries. `conns` is the table
of connections read so far, `net` LinkedIn's truth, `sweep` the account being swept with the
locals of its handler: the updates still to write (`plan`), the rows it has seen open
(`open`), the URLs it means to introduce. `armed` says that the monitor task is pending or
its handler runs. `mishaps` counts pods that die and store calls that fail; `doubt` collects
the URLs whose acceptance rests on no reading of the engine's own: connected in the sheet
under no sender, posted by the operator, or left half written by a mishap.

| code | actions |
|---|---|
| LinkedIn; a check on the operator's machine (`syncLeadStatuses`) | `Accept`; `LocalCheck` |
| `handleMonitor`, `openSession` | `OpenSession`, `SessionDead`, `Applied`, `SweepDone` |
| `runBulkCheck` | `Fetch`, `Match`, `Apply` |
| `runAutoIntros` | `Gate`, `Hold`, `TakeUrl`, `Send`, `AlreadyMade`, `SendFails`, `Stamp`, `Mark`, `BrowserDies` |
| errors, a killed pod | `StoreFails`, `Crash` |
| the tail of `handleMonitor`; `armMonitorTask` | `Park`; `Rearm` |

`Match` reads the rows and decides: `Queue`, `Duplicate`, `Reassigned`, `Recognised` and
`StillPending` state declaratively what the loop of `computeBulkCheckUpdates` finds for each
row, and `Decided` is its update. `Apply` writes the updates one after another, each to every
row of its URL (`Written`), whatever these rows say by then: the operator may have posted a
result in between, and a mishap may leave the rest unwritten. After `Crash` nobody puts the
monitor's task back (`reapOrphanedTasks` takes follow-ups and accepts only): no sweep follows
until the operator asks for one (`Rearm`).

### PrimaryTasks

`file` is `primary-tasks.json`; a writer (campaign, runner, board) changes it by a
load with its edit (`Load`) and a later save (`Save`), so a write over an outdated
read is a behaviour of the model. `slips` counts the loads that overlap another
change and the retries that revive a task which has moved on; `mishaps` the restarts, failed
saves and unconfirmed sends. `FollowUpBudget` charges a second send to one of these.
Actions: `StartCampaign`, `EndCampaign`, `Enqueue*`; the runner's `Tick`, `Defer`,
`Launch`, `Claim*`, `Hold`, `Send`, `SendUnconfirmed`, `SendFails`, `Mark*`,
`SettleUnsent`, `CloseBrowser`; the board's `Discard`, `Restore`, `SendHeld`,
`Retry`, `Revive`, `Request*`; `LeadReplies`, `Restart`.

*Limits.* The thread is read reliably before a follow-up is sent (`Hold`, `Send`); in the code
that read is best effort, and an answer it misses is written over. `InProgressInHand` speaks of
the time before any mishap or slip, so it finds a way through the runner that forgets a task, and not
the crash. `DiscardedStays` speaks of the steps before any slip, and of tasks outside the
runner's batch: it finds a board request that revives a discarded task, and not the
write over an outdated read, which `slips` counts.

### DesktopSend

`startCampaign` in the connect modes: workers take accounts from a queue, open a
browser in a slot, work off a batch, close. `memory` is `state.json`, `outbox` the
file of pending sheet writes, `sheet` the sheet, `slots` the semaphore, `invited`
LinkedIn. `adrift` are sends that nobody waits for any more (a watchdog, a
preemption) and that may still land; `exposed` the leads such trouble may have
touched. `borrower` is the follow-up runner using the same semaphore.

| code | actions |
|---|---|
| `startCampaign`, end of the worker loop | `StartCampaign`, `WorkerExit`, `Finish` |
| `pickNextProfile`, `awaitUnpause`, loop guard | `PickNextProfile`, `Pausing`, `Unpausing`, `Recorded`, `EndTurn` |
| `browser-semaphore.js`, resource monitor | `Acquire`, `GiveUp`, `SetMax`, `Released`, `WakeUp` |
| turn | `Restricted`, `Launch`, `NotLaunched`, `TakeLead`, `LeadsExhausted`, `TurnOver`, `Close` |
| one lead | `PageWedged`, `Invite`, `Unconfirmed`, `Refused`, `Transient`, `Watchdog`, `AdriftLands`, `Record`, `Stamp`, `StampFails` |
| outbox | `Flush`, `FlushUnconfirmed` |
| operator, runner, process | `Stop`, `Pause`, `Resume`, `Preempt`, `Bench`, `Unbench`, `RetryParked`, `Borrow`, `GiveBack`, `Crash` |

*Assumption as a constant.* `Borrowed = FALSE`: a campaign does not start while the
follow-up runner has a browser (the runner's idle guard makes it rare, nothing makes it
impossible; with TRUE, `SlotsMatch` fails: `_reset` forgets the open browser).

*What a send comes to.* An invitation that LinkedIn confirms is `Invite`, and only it counts
for the day (`Record`). One that goes out and is not confirmed in time (SEND_NOT_CONFIRMED) is
`Unconfirmed`: stamped as a skip, forgotten by `state.json`, counted nowhere. One found pending
already (`already_processed`) is `Refused` with result "pending": stamped as sent, not counted.
An error of the page after the click is like the watchdog's: the invitation may land later
(`adrift`), and its lead is `exposed`.

*Limits.* `LeadOnce` and `DailyCap` exempt the leads in trouble (`exposed`): the late
landing itself is a behaviour, and its lead may be invited twice. `SlotsMatch` counts the
sessions of the map: a close that times out after 15 s gives the slot back while the browser
may still be open (`campaign.js:3392-3397`). `Restricted` leaves out that an account which the
shared sheet lists no more comes back (`campaign.js:3795-3799`; `Unbench` is the same change,
made by the operator), and an account that parks after a streak of skips. The queue is a set,
so an account queued twice would not show; `NoAccountLost` is about the one that is queued never.

## 3. What TLC checks

| run | instance | shows |
|---|---|---|
| `scrape_faults` | a worker and a frontend, two jobs of one profile, one fault, one cancel sweep | two scrapers never share the profile (`ProfileExclusive`), whose lock names the live scraper's job (`ScraperHoldsLock`); the reaper's verdict stays true up to its HDEL (`OrphanVerdictSound`); the queue implements `ProfileQueue` |
| `scrape_pods` | two workers, three jobs on two profiles, no faults | `ClaimedOnce`, `PodCap`, and `AccountsCounted`: the KEDA counter is the account's active jobs up to the round trips in flight |
| `scrape_live` | a worker and a frontend, two jobs, one fault | `OrphansReaped`, `LocksFreed`, `JobsEnd`, and orphans end in a final state (`ReapedIsFinal`) |
| `jobqueue` | four jobs, three profiles, two operators, two slots, batches of two | no idle slot, per-profile order, the cascade, `ProfileQueue`, `JobsEnd` |
| `send_stops` | two pods, two accounts, two leads, two operator requests | `LeadInHand`: a claimed lead is in one hand, and nobody moves it meanwhile; `StopsAfterLead`: after a stop a pass sends at most the lead it is at |
| `send_faults` | two passes of one pod, one account, two rows, two faults | `AccountExclusive`, `ContactedOnce`, `DailyCap`; a person in two rows is invited once per account and fault (`PersonBudget`); the account is free again in the end (`AccountsReleased`) |
| `send_pause` | one pass, one stop | violation of `StopSticks` |
| `tasks` | two pods, the campaign's account and the primary's, one lead, two events among requests, turns, faults and lapsed locks | handlers, sweeps and turns exclude each other on an account, but for one newcomer per lapsed lock (`AccountExclusive`); a lead is introduced once, and once more per fault and lapse (`IntroBudget`), followed up once, and once more per fault (`FollowUpBudget`); a stopped campaign is swept at most once more (`OneSweepAfterStop`) |
| `tasks_live` | one pod, one lead, replies tracked, one turn and one fault | a follow-up or accept task is finished although its pod dies with it (`TasksFinish`) |
| `acceptance` | three rows of one person, two with one URL under two senders, the third with none and connected in the sheet; two accounts, posted results, one mishap | `RowIntroducedOnce`; the introducing account is connected, or the URL in doubt (`IntroFromConnected`); a sweep overwrites no outcome it has read, but the twins of a duplicate (`OutcomeKept`); while monitoring is armed every row of a connected person is settled, or stranded in a way that is named (`RowsSettled`) |
| `followups` | two follow-ups, two attempts, two requests, one mishap or slip | one send and no more, but for a mishap or slip (`FollowUpBudget`); nothing is left in progress (`InProgressInHand`); what was discarded is not sent (`DiscardedStays`) |
| `desktop` | two workers, two accounts, two leads, batches of one, one credit, one attempt, two slots, one stalled turn, two requests, one trouble | `LeadOnce`, `DailyCap`, `SheetAgrees`, `SlotsMatch`, `NoAccountLost` |

*Bounds.* In `ScrapeQueue`, two jobs on one profile are the smallest instance in
which the lock matters; a third job on a second profile makes the rotation of the
waiting list and the independence of profiles matter. One fault suffices for every
orphan: the reaper, the TTL and the restart then act without further help.
`MaxFaults` and `MaxSweeps` bound how often faults and sweeps *start*; everything
they cause is unbounded. `MaxBatch` bounds a submission of `JobQueue`.

In `CampaignSend` two leads and batches of two make a turn stop in the middle of a
batch; a limit of two credits makes the gate refuse within one; two accounts let
two turns overlap, one makes them compete. Two requests are the pair stop and
resume, or stop and restart. Two faults are an abandoned pass and one more. Two
passes of one pod are the harder case for the lock, whose value is the pod.

In `CampaignTasks`, `MaxEvents = 2` makes every pair of a request, a turn on one of
the accounts, a fault and an account whose lock lapses meet (a check-now beside a crash, a
check-now beside a lapse, a turn beside a lapse),
while the tasks, their reaping and rescheduling go on without bound. `tasks` leaves the
accept tasks out (`AutoAccept = FALSE`), which take the primary's account as follow-ups do;
`tasks_live` has them. The primary's
account is outside the campaign, as operators set it up; a check-now may widen a
sweep to it, and then sweeps and follow-ups compete for it. In `Acceptance` the three rows are one
person's: two share a URL and name different senders, so that the write of one goes to the
other; the third shares an identity with the first under another URL, names no sender and is
connected in the sheet, so that duplicates, changes of sender, backlog and doubt all happen. Who is
connected at the start is left open. `MaxPosted = 2` lets the operator post both URLs. In `PrimaryTasks` two requests are
discard and restore, or discard and retry; two attempts make a task fail. In
`DesktopSend` a batch of one makes accounts rotate, and a limit of one makes them
run out; two workers with two slots, of which the monitor takes one away, wait for
each other. `MaxRetries = 1`: a retry brings a worker back to where it was with the same
account and lead, and doubles the states; the theorems, which cover all five properties of the
run, hold for any number of retries. The proofs below remove the bounds for the properties they cover.

*Fairness.* `FairSpec` of `ScrapeQueue` assumes that the claim timer, Redis replies,
TTLs and the reap timer keep going (setInterval), that Kubernetes starts a dead pod
again, and that a scrape ends. `ReapCheck` is strongly fair: a reap tick walks
*every* id of `sn:running`, so an orphan that is there again and again is looked at.
Nobody has to submit or cancel. In `CampaignSend` a step of a turn and a TTL happen
eventually: store calls and page actions return. A browser that hangs for ever would
break `AccountsReleased`: the heartbeat goes on after the pass was abandoned.
`JobQueue` assumes only that an unpaused or stopped scrape ends and that the drain
has a deadline. In `CampaignTasks` a handler goes on, timers fire, Kubernetes starts a
pod that is wanted; reaping and the claim of each due task are strongly fair, because every
tick reaps first and claims in the order of the due dates, so a task is not passed over for
ever. In `Acceptance` the monitor, as long as it is armed, sweeps each account again and again,
and now and then (strong fairness) with a live session that lists all connections and with the
primary in reach; no person has to accept, and nobody has to arm a monitor that was parked or
died with its pod, so `RowsSettled` promises nothing after that. `PrimaryTasks` and `DesktopSend` state no
liveness: the operator may leave the app paused.

*Deadlock* is checked except where the system may really stop: in `jobqueue` the
process exits; in `CampaignSend` and `CampaignTasks` a stopped or finished campaign
leaves nothing to do; in `DesktopSend` a paused run waits for an operator whose
requests are bounded. Each configuration says so.

### Finding

**A pause is lost** (`campaign-runtime.js:220`, run `send_pause`). A pass sets the
status it listed, not the status it finds; a pause or stop in between is overwritten
and the campaign sends. `transitionToMonitoring` overwrites one in the same way.

### Divergences met while modelling

These are behaviours of the code that differ from what a comment or a reader would
expect. They have no run; where one of them bounds a property above, it is named.

*Scrape queue.*
- Re-queueing skipped jobs at the tail lets a younger job of a profile overtake
  (`redis-store.js:140`, beside the FIFO of lines 22 and 66). So only `JobQueue` has
  `ProfileFIFO`.
- An orphan that last reported throttle-wait, throttled or stopped leaves
  `sn:running` and keeps that state for ever (`redis-store.js:449`, beside 426).
  `scrape_live` has no such status (`Statuses = {}`), and `ReapedIsFinal` holds there;
  the theorem `ReapsFinish` carries it as a hypothesis.
- A cancel that overtakes the account activation of `addJob` decrements first; the
  late increment leaves the account listed for KEDA with no work (`redis-store.js:200`).
  A cancel sweep drops a job claimed since the listing from `sn:active` although it
  runs (`redis-store.js:479`). `AccountsCounted` is checked without sweeps.
- A pod killed in the middle of a reap, or between removing and marking a queued job,
  leaves a job nobody finalizes (`redis-store.js:441`); it takes two faults, or a fault
  and a sweep. `ReapsFinish` says that less than that loses no job.
- A claim tick in flight goes on claiming after the drain began (`queue-redis.js:246`).

*Cloud sending.*
- Sending ends while another pod holds a lead: only pending leads count
  (`campaign-worker.js:362`, beside 353). A lead given back later stays pending in a
  campaign that is monitoring or done.
- The mark of a person is read before the send and set after it; two rows of one person
  in turns on two accounts both pass (`campaign-worker.js:185`, beside 184).
  `ContactedOnce` is about rows; `PersonBudget` says how often a person is invited at
  most: once for each account of the campaign, and once more from each for every fault.
- A lead whose pod exits or whose store call fails stays claimed for ever: safe, but
  never settled. SIGTERM promises to let turns finish and ends the process after five
  seconds (`campaign-main.js:91`).

*Monitoring.*
- The handlers of tasks do not renew the account lock, and `releaseAccount` compares
  the pod, not the claim: a sweep longer than 120 s shares its account with the next
  taker (`campaign-worker.js:155`, `campaign-store.js:393`), although "a scrape and a campaign
  can NEVER drive the same LinkedIn account at the same moment" (`campaign-store.js:15-18`) and
  "a sweep can take minutes" (`campaign-runtime.js:421`). Two sweeps that overlap so can both
  introduce a lead. The model does both (`LockLapses`); `AccountExclusive` and
  `IntroBudget` bound the damage by the number of lapses.
- A follow-up that takes more than ten minutes is reaped while its handler lives and may be
  sent twice (`campaign-store.js:317`). `SlowFollowUps = FALSE` excludes it.
- A one-shot check of a running campaign ends with its task "done", and the task that
  the end of sending creates has the same dedupe key: the campaign is then monitoring
  with no task (`campaign-runtime.js:87`).
- A monitor or reply task of a dead pod is not among the reaped types
  (`campaign-store.js:317`). The comment above says that they "self-revive via armMonitorTask"
  (`:314-315`), but only a request of the operator calls it: monitoring is over until then.
  `TasksFinish` is about the reaped types; `RowsSettled` about monitoring that is armed.
- The scheduler calls itself part of the always-on frontend (`campaign-scheduler.js:3`);
  it is started in the campaign pods (`campaign-main.js`), which scale to zero. A
  follow-up of a finished campaign waits for the next campaign.
- Two rows of one person are both introduced when the first was closed by a failure of
  a kind that leaves no key (`campaign-runtime.js:361`, beside
  `campaign-bulkcheck-core.mjs:61`). `RowIntroducedOnce` is about rows.
- Two duplicate rows of which the first is held by the primary gate: the second is
  closed as a duplicate of a row that has no introduction yet
  (`campaign-bulkcheck-core.mjs:223`, `campaign-autointro.js:221`).
- A row without a sender that the sheet calls "Connected" is introduced by any sweep, connected
  to the person or not: `rowSenderMismatch` is false for it
  (`campaign-bulkcheck-core.mjs:295`, `:538`), beside the comments "Only the row's assigned
  sender (this sweeping account) may fire" (`:536`) and "ONLY that account may push the lead
  into connectedUrls" (`:318`). `IntroFromConnected` charges it to `doubt`.
- Rows with the same URL share one write: an "Introduction Made" is overwritten by "Skipped —
  duplicate" when another row of its URL is taken for a duplicate (`campaign-monitor.js:191`,
  `campaign-bulkcheck-core.mjs:466`). `OutcomeKept` names the case.
- A sweep decides from the rows it read and writes over what has become of them since: an
  outcome the operator posts in between is lost (`campaign-monitor.js:191`), or the lead
  introduced again, although `syncLeadStatuses` is there to prevent it
  (`campaign-store.js:919`). `OutcomeKept` is about outcomes the sweep has read.
- An acceptance posted by the operator leaves the sender as it was: a row accepted under an
  account that does not know the person is never introduced once the table shows who does
  (`campaign-store.js:927`), or, before that, is introduced by the account that does not know
  the person. A crash between two updates of one URL does the same to a twin. `Stranded` and
  `doubt` name both.
- A row without a sender whose person is known only to accounts that are no row's sender is
  never introduced: their sweeps match nothing (`campaign-bulkcheck-core.mjs:111`).
- "Skipped — browser closed (retryable)" is never retried.

*Desktop.*
- A held follow-up released by the operator is held again for the same reply
  (`primary-task-runner.js:105`, beside `server.js:2775`).
- A follow-up that the runner already has in its batch is sent although it was
  discarded meanwhile (`server.js:2758`). `DiscardedStays` starts from the tasks
  outside the batch.
- A preempted lead is not taken again in the same run (`campaign.js:4421`).
- `_reset` of the semaphore at a start forgets a browser that is open
  (`browser-semaphore.js:2`); the constant `Borrowed` excludes it from `SlotsMatch`.
- `awaitUnpause` clears a pause requested after the resume it saw (`campaign.js:6690`).
- The day's count "cumulatively caps daily activity so LinkedIn's per-day quotas can't be blown"
  (`campaign.js:2735-2741`), but an invitation that went out without a confirmation in
  time is stamped as a skip and not counted (`campaign.js:5361-5369`), and one found pending is
  neither counted nor seeded (`campaign.js:4677`, `:2752`). `DailyCap` bounds the confirmed sends.
- A result whose outbox entry cannot be saved is logged and lost (`campaign.js:1432-1434`): the
  row stays blank, and the next run may invite the lead from another account.
- The end of an abandoned run clears the flag of the run that replaced it
  (`campaign.js:6291`).
- `popNextReady` of the campaign queue writes the shortened queue before the campaign
  starts (`campaign-queue.js:121`): a crash between the two loses it.

## 4. What is proved

`ScrapeQueue_proofs` proves, for every set of pods, jobs, profiles and operators
and every bound:

| theorem | states |
|---|---|
| `TypeCorrect` | `Spec => []TypeOK` |
| `JobsClaimedOnce` | `Spec => []ClaimedOnce` |
| `LockHeld` | `~LeaseMayLapse => (Spec => []ScraperHoldsLock)` |
| `OneScrapePerProfile` | `~LeaseMayLapse => (Spec => []ProfileExclusive)` |
| `PodCapped` | `Spec => []PodCap` |
| `ReaperSound` | `~LeaseMayLapse => (Spec => []OrphanVerdictSound)` |
| `Implements` | `~LeaseMayLapse => (Spec => ImplementsProfileQueue)` |
| `ReapsFinish` | `~LeaseMayLapse /\ ~SlowReplies /\ Statuses \subseteq {"running", "done", "error"} => (Spec => [](OneTrouble => ReapedIsFinal))` |
| `AccountsAddUp` | `~LeaseMayLapse /\ ~SlowReplies => (Spec => [](Undisturbed => AccountsCounted))` |

*Assumptions.* The named ASSUMEs of `ScrapeQueue`, which TLC evaluates in every
run, and the hypotheses where they are written. Faults and sweeps are unbounded in
number, since `MaxFaults` and `MaxSweeps` are any naturals; where a theorem speaks of
fewer, its formula says so:

* `OneTrouble`: no fault, or one fault and no sweep. With more, the property is false:
  a pod killed inside a reap leaves a job without an end, and a pod may be reaping only
  after an earlier fault; a pod killed between taking a job from the list and marking it
  does the same. `Statuses` without throttled states: an orphan keeps such a state for
  ever. `~SlowReplies`: a status update written after the end would undo the end.
* `Undisturbed`: no fault and no sweep yet. A kill between two commands leaves the counter
  too high; a sweep that overtakes an activation, or finds a claimed job, disturbs it
  without a fault. Section 3 lists both as divergences. Jobs, claims, batches and pods
  are not bounded by it.

*Argument.* None of the properties is inductive. The invariant has these layers:

* `TypeInv`: types, and what a pc implies about the record it belongs to (a reap
  that is under way names a job; a claim in transit still has its slot, without
  which the budget could go negative).
* `QueueInv`: waiting jobs are distinct and queued, and whatever a pod has taken
  up (a claim, a scrape, an update, a reap, a removal) has left the list. A sweep
  may list a job that is claimed meanwhile, but it marks only what it removed:
  this is why no pod can cancel a job another one runs.
* `OwnerInv`: a claim in transit is nobody else's, and no two pods own one job.
  It needs `QueueInv`: a new claim comes from the list, so no pod holds it yet.
* `LockInv`: the owner of a job holds its profile's lock. It needs `OwnerInv`:
  the check-and-delete of one job's release, and the claim of another job, cannot
  touch a lock that names a third. Mutual exclusion follows because a lock names
  one job.
* `SlotsCounted`: the scrapes of a pod and the budget left in its claim tick fit into the
  limit. Jobs that end during a tick only make room; the flag `_claiming` keeps a second
  tick from counting the same room again.
* `RunInv`: a job that is scraped or on its way to a pod is in `sn:running`. It needs
  `OrphanVerdictSound`, since only the reaper removes a job it does not own.
* `BoundInv` and `OrderlyInv`: as long as nothing but a drain has failed, every running
  job is taken, and nothing is reaped. This is the state a first fault finds.
* `SafeInv`: every job is over, or in a structure that some pod will look at: the waiting
  list, `sn:running`, a reap past its HDEL, a won cancellation. `ReapsFinish` is its
  consequence; a fault can lose a job only where a reap or a sweep carries it, and by
  `OrderlyInv` neither does at the first fault.
* `AcctInv`: an account's counter is the number of the jobs activated, or ended and not
  yet deactivated. It needs `OwnerInv` and `OrderlyInv` (nothing is reaped), and that a job
  is activated before its scrape ends (`~SlowReplies`).

The implementation theorem shows that each action maps to an `Advance` of
`ProfileQueue` or to a stutter under the mapping `JobStatus`.

`CampaignSend_proofs` proves every safety property of the sending phase, for every
set of pods, passes, campaigns, accounts and leads and every bound, from the named
ASSUMEs of `CampaignSend` and, for the last, one that is written with it:

| theorem | states |
|---|---|
| `TypeCorrect` | `Spec => []TypeOK` |
| `OneTurnPerAccount` | `Spec => []AccountExclusive` |
| `LeadHeldOnce` | `Spec => []LeadInHand` |
| `InvitedOnce` | `Spec => []ContactedOnce` |
| `InvitationsCovered` | `Spec => []DailyCap` |
| `OneAfterStop` | `Spec => []StopsAfterLead` |
| `PersonInvitedOnce` | `IsFiniteSet(Accounts) => (Spec => []PersonBudget)` |

`IsFiniteSet(Accounts)` is needed only to count; every campaign has a list of accounts.

*Argument.* `TypeInv` adds to the types the shape that a pass's locals have at each
position (a pass in a turn has an account, one between claim and stamp has a lead).
Each action is shown to change one pass into another of the right shape; the lemmas
`NextLeadSteps`, `GiveBackSteps`, `JumpSteps`, `LeadSteps` collect these, and the other
invariants reason about one pass at a time:

* `LockInv`: who drives an account holds its lock. The lock names only the pod, so that
  two passes of one pod exclude each other must be said as well: the lock is taken with
  NX, and an abandoned pass renews and holds it until its own turn ends.
* `HandInv`: a lead in hand is claimed, and in one hand; the leads of a campaign that is
  being created are not in the table yet, so its creation moves none that is in hand.
* `ContactInv`: a row that waits was never invited, and neither was one in hand before
  the send. `InvitedOnce` is its consequence; it needs `HandInv`, since otherwise a
  second hand could give an invited lead back.
* `CreditInv`: invitations are covered by credits, and a pass about to send holds one
  that is not spent. It needs `LockInv`: two turns on one account could refund each
  other's credit.
* `StopInv`: a pass that has sent a late invitation is past its batch's work, in a
  campaign that is not active: it reads the status before the next lead, or is over.
* `PersonInv`: while a person has no mark, only turns about to set it and faults have
  invited them; and what was sent, with the turns that have passed the check and may still
  send, fits into the budget. It counts accounts, not passes: two turns on one account
  would break it, so it needs `LockInv`. That one account cannot invite a person twice
  follows, since its next turn finds the mark, unless a fault came between.

`CampaignTasks_proofs` does the same for a campaign's tasks, for every set of pods,
accounts and leads and every bound on requests, turns and faults:

| theorem | states |
|---|---|
| `TypeCorrect` | `Spec => []TypeOK` |
| `OneDriverPerAccount` | `Spec => []AccountExclusive` |
| `IntroducedOnce` | `Spec => []IntroBudget` |
| `FollowedUpOnce` | `~SlowFollowUps => (Spec => []FollowUpBudget)` |
| `OneLateSweep` | `Spec => []OneSweepAfterStop` |

*Assumptions.* The named ASSUMEs of `CampaignTasks`, and for `FollowedUpOnce` alone
`~SlowFollowUps`, used at one place: a claim ages only when nobody works on its task
(`FollowNext`). Handlers may be as slow as they like otherwise, and locks may lapse under
them: what that can do is in the properties.

*Argument.*

* `TypeInv`: types, and the shape of a handler's locals (`Shaped`): whoever is between
  acquire and release has an account, a sweep has a sweep's task, a follow-up's handler
  its lead.
* `LockInv`: the handlers and turns on an account are no more than its lapses, and one more
  if the lock's owner is among them. Whoever takes the lock finds it free, so nobody on the
  account owns it; a lapse pays for the handler it takes the lock from; and a release that
  hits the lock of a later claim of the same pod takes one driver away with it.
* `IntroInv`: the leads a sweep is about to introduce belong to its account (`WorkInv`); a
  lead whose slot is open has had as many introductions as there were faults, and those out
  this instant; and once it is closed, what it had and what is still in the hands of sweeps that
  took it up before is within the budget (`Slot`). It needs `LockInv`: the sweeps that hold
  one lead all drive its account, so they are no more than one and the lapses.
* `FollowInv`: a follow-up that is worked on is claimed, by one pod; its handler has
  found the lead unmarked when it acts; and an unmarked lead has had as many follow-ups as
  there were faults, or one that is about to be marked. It needs no account lock: the claim
  of the row alone keeps a second handler away.
* `SweepInv`: a sweep may begin once for the creation of the monitor's row and once for
  each time the row was revived. Each of these is in the row, in a handler, or gone. While
  the campaign is stopped, a sweep that begins asks for no other one (`MonitorTail` reads
  the status again), so the sweeps begun since the stop, those ahead and the row's share
  one budget.

`PrimaryTasks_proofs` proves every safety property of the desktop's follow-ups, for any
set of tasks and any number of attempts, requests and mishaps, from the named ASSUME of
`PrimaryTasks`:

| theorem | states |
|---|---|
| `TypeCorrect` | `Spec => []TypeOK` |
| `SentOnce` | `Spec => []FollowUpBudget` |
| `NoneLeftInProgress` | `Spec => []InProgressInHand` |
| `DiscardedUnsent` | `Spec => DiscardedStays` |

*Argument.* The file has up to three lists that may overwrite it, so each invariant speaks
of the file and of every open edit at once.

* `TypeInv`: types, and that the runner has a task of its batch in hand from claim to
  mark, with an edit open exactly while it claims or marks.
* `BudgetInv`, task by task: a task that exists everywhere (in the file and in every open
  list) was sent as often as there was trouble, or once more and is `Spent`: in the
  runner's hands, or done in the file and in every list, or about to become so with no other
  list open. A task that some list lacks was sent less, by one where the lists
  disagree: that disagreement is an overlap, which was counted. `LoadFacts` shows that no
  load changes on which side a task is, but for the campaign's that adds it.
* `CleanInv`: without trouble one list at most is open, so no list carries a task's
  `in_progress` past its mark.
* `DroppedInv`: without slips a discarded task is out of the batch, and discarded in the
  file and the one open list, unless that list is its undo.

`DesktopSend_proofs` proves every safety property of the desktop's send loop, for any
finite sets of workers and leads, any accounts and any bounds, from the named ASSUME of
`DesktopSend` (`SlotsMatch` itself says `~Borrowed`):

| theorem | states |
|---|---|
| `TypeCorrect` | `Spec => []TypeOK` |
| `SheetFollows` | `Spec => []SheetAgrees` |
| `AccountsStay` | `Spec => []NoAccountLost` |
| `InvitedOnce` | `Spec => []LeadOnce` |
| `LimitKept` | `Spec => []DailyCap` |
| `SlotsCounted` | `Spec => []SlotsMatch` |

*Argument.* `StepKinds` sorts the steps into those of one worker and those of the operator,
the outbox and the process; `OwnStep` and `MoveStep` say what a worker's step leaves alone.

* `TypeInv`: types; what a worker has in hand at each position; only waiting workers are in
  the semaphore's list, each once; no worker is left when the run is over.
* `OutboxInv`: the last write that waits for a row is what was last meant for it. A flush
  takes the oldest, so the sheet agrees once none is left.
* `PlaceInv`: the accounts of a live run are queued, at work, parked or benched. The step that
  ends a turn must put the account back, unless it is finished for the day, benched or parked.
* `LeadInv`, one lead at a time, while it was in no trouble: it waits, or one worker has it, or
  neither; and an invitation leaves a trace in the worker, the outbox or the sheet, which is
  what a new run reads. `OutboxInv` keeps the trace as it moves from one to the next.
* `CapInv`: one worker runs an account (`AcctInv`); who sends, or has a send to record, has
  room (`RoomInv`); the counter covers what `state.json` remembers of this day (`CountInv`);
  and that is every invitation but the one being recorded and those taken for a skip
  (`TellInv`). The limit then bounds the confirmed invitations by a count of the leads
  remembered, which is why the sets of workers and leads must be finite.
* `SlotInv`: an open browser has a worker in a turn who drives it, and the semaphore counts
  the browsers open or being opened. A release lets in one waiter or none
  (`ReleasedCount`), a wider cap as many as it counts (`GrantedCount`), and each of them
  goes on to open a browser (`OpeningStep`). It needs `CapInv`: two workers of one account
  would open one session and take two slots.

`JobQueue_proofs` proves every safety property of the in-memory queue, for any jobs,
profiles, operators and limits, from the named ASSUMEs of `JobQueue`:

| theorem | states |
|---|---|
| `TypeCorrect` | `Spec => []TypeOK` |
| `NoSlotIdles` | `Spec => []NoIdleSlot` |
| `SlotsAndProfiles` | `Spec => []SlotsRespected` |
| `StartsInOrder` | `Spec => ProfileFIFO` |
| `RateLimitEmptiesQueue` | `Spec => RateLimitCascades` |
| `Implements` | `Spec => ImplementsProfileQueue` |

`SlotsRespected` (at most the limit runs, and one job per profile) is stated in the proof
module; the runs have it as part of `ProfileQueue`, up to the limit.

*Argument.* Each action ends in `Tick`, so the proof is about what a tick is given and what
it leaves.

* `WithoutKeepsOrder`: `Without`, the filter that cascades, stops and the tick use, returns
  the other jobs in their order. It is a loop, so the fact is proved by induction over it.
* `StartedFacts`: a tick starts queued jobs of idle profiles, one for each, no more than
  its budget (`Rationed`); and if it leaves budget over, no idle profile has a job left.
* `Ready`: the queue is a list of distinct jobs, the queued ones; `running` are the running
  ones, within the limit and one for each profile. Every handler gives its tick a `Ready`
  queue, also in the middle of a cascade.
* `Inv` adds to it `NoIdleSlot`. The action properties and the implementation of
  `ProfileQueue` follow, since a step changes a job's state only through the tick, the end
  of a scrape, a cascade or a stop.

`Acceptance_proofs` proves every safety property of the acceptance checks, for any rows,
persons, URLs and accounts and any number of mishaps and posted results, from the named
ASSUMEs of `Acceptance` and nothing else:

| theorem | states |
|---|---|
| `TypeCorrect` | `Spec => []TypeOK` |
| `IntroducedOnce` | `Spec => []RowIntroducedOnce` |
| `IntroducedByConnected` | `Spec => []IntroFromConnected` |
| `OutcomesFinal` | `Spec => OutcomeKept` |

*Argument.*

* `QueueLoop`: `Queue` decides row by row, each after those before it; that such a function
  exists and does so is proved by induction over the rows. `QueueGreedy` says
  what comes out: a row that may be introduced is queued exactly if its keys are neither
  closed nor those of an earlier queued row.
* `DecidedKinds`: what an update says about the row it was decided for; and `Shaped`: a
  row that is to be stamped a duplicate was open when the sweep read it, which with
  `ApplyCloses` gives `OutcomesFinal`.
* `SentInv`: an open row has had no introduction but those of mishaps, or has one that
  is about to be stamped; whatever a sweep still means to introduce has had none, although the
  operator may have closed it since.
* `ConnInv`: what the table lists is true of LinkedIn; an open row counted as accepted is
  `Safe` (known to its sender, or without one and known to some account, or in doubt, or an
  update that is still to be written will move it); so is one about to be written as accepted; what a sweep has queued
  is known to its account, or in doubt. `Moving` is what the grain of one write at a time costs:
  between the write of one twin and of the other, a row may count as accepted under a sender
  that does not know the person, and the sweep's own plan is what puts it right. A mishap there
  puts the URL in doubt.

*Lemmas shared.* `SeqLemmas` derives induction over sets of numbers (`Induction`) and the
existence of a function defined by a loop (`Iterates`) from the well-foundedness of finite
sets, without a theorem that takes an operator as a parameter. The two proofs above use both.

*Only model-checked.* Liveness (`OrphansReaped`, `LocksFreed`, `JobsEnd`,
`AccountsReleased`, `TasksFinish`, `RowsSettled`): fairness is stated through ENABLED,
which is out of the prover's reach. Every safety and action property of the passing runs is
a theorem, under the hypotheses written above.

## 5. Not modelled, and the plan

*Left out, with the reason.* Page automation (`linkedin/*.js`), sheet layout and
formatting, the UI and the Electron shell, login, external synchronisation of
contacts, the Sheets gateway, the deployment: sequential code that drives other
systems and keeps no shared state of its own, or keeps it where this program cannot
see it. They make most of the repository's lines. Of the modelled parts: the
desktop's poller of cloud follow-ups, its monitoring timers and its queue of campaigns
are read and their hazards listed, but no module has them; the direct-message campaigns
and the accept tasks of the desktop follow the paths of `CampaignTasks` and
`PrimaryTasks`. `PROJECT.json` says for each component what is modelled.

*Next, in order.*

1. The acknowledgement protocol between the engine's pending follow-ups and the
   desktop poller: at most one send over lost acknowledgements and restarts.
2. The desktop's campaign queue and `restoreCampaign` beside `DesktopSend`: a run
   that replaces one whose workers have not left.
3. An abstract ledger of a lead (pending, in hand, contacted or given up) that
   `CampaignSend` implements, with the implementation proved from `HandInv` and
   `ContactInv`.
