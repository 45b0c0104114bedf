# Formal models of goguma

goguma keeps a laptop awake while a scheduled job, a coding agent or a command
runs, wakes it for the next job, and lets it sleep otherwise. Two processes do
it: a per-user **daemon** (`src/internal/daemon`), which decides, and a
root **helper** (`src/internal/helper`), which is the only one to call `pmset` or
`rtcwake`. This directory holds TLA+ models of their core logic, the TLC
configurations that check them on small instances, and TLAPS proofs of what
matters most for instances of every size.

## 1. Inventory

Where something can go wrong, and where a test hardly reaches, is listed line by
line in `PROJECT.json` ("hazards"); the table names the behaviour.

| Component (source) | State | Operations | Hard part | What makes it correct |
|---|---|---|---|---|
| Control loop (`daemon/daemon.go`) | timers, `d.paused`, `d.lastState` | `tick`: power state, cutouts, due windows, detection, ceilings, next wake; poll; repush; sync; shutdown | reads state once and acts on it later, while handlers change it | cutout before windows; nothing opened under a pause or a latch |
| Hold map (`daemon.go`, `hold.go`) | `d.holds`, `d.served`, `d.lateWatch` | `openWindow`, `finishHoldLocked`, detection, ceilings, late completions | check, slow assertion, insert: never one locked section | each OS assertion belongs to one hold; a window is for a new fire |
| Keep-awake (`keepawake.go`) | the manual hold and its display assertion | `KeepAwake`, release, display sync | replacing a window, a setting changed in between | no assertion lost; display on only if wanted |
| Run holds, agent sessions (`runhold.go`) | keyed holds, leases, sightings | `StartRun`, `RenewRun`, `EndRun`, `releaseAgentHolds` | two starts for one key; lease against the hard bound | one hold per key; none outlives its bound |
| Cutouts (`cutout.go`) | `CutoutLatch` | evaluate, engage, update, wake floor | hysteresis; a failed sensor read; no lock | no hold while latched; latch clears |
| Wake scheduling (`wake.go`) | next wake, skips, sleep gap | `scheduleNextWake`, `SkipNext`, `SleepNow` | pause racing a job change; retried cancel | the OS entry is the next window's, or none |
| Sleep-back (`sleepback.go`) | armed deadline | arm, disarm, `maybeSleepBack` | state checked, then a slow call, then sleep | never sleeps a machine somebody is using |
| Helper link (`helperlink.go`) | wanted block and wake, dirty channel, pending cancel | `Push`, `Repush`, `pump`, `reconcile`, `Settle` | pushes from several threads, one pump, failed calls | what was last pushed reaches the helper |
| Helper policy (`helper/service.go`) | `blocked`, `lastContact`, `scheduled` | set, status, schedule, verify, `Recover`, dead-man, `Shutdown` | record against kernel; decisions outside the lock | the block is never stranded |
| Helper platform (`sleepblock_darwin.go`, `sleepblock_linux.go`) | the kernel's `SleepDisabled`; an inhibitor child | `pmset`, `rtcwake`, `systemd-inhibit` | partial failure; lock order on Linux | does it, or says that it did not |
| IPC (`ipc/`) | one connection per request | `Serve`, `handle`, `Call` | a request outliving its caller | answers reach whoever waits, or nobody |
| Job store (`store/store.go`) | `jobs`, `invalid`, `loadErr`, `jobs.json` | `Load`, `Add`, `Put`, `Remove`, `SetEnabled`, atomic write | memory changed and the write failed; crash or power loss inside the write | the file is what was acknowledged; a broken entry is never dropped |
| Provider sync (`sync.go`) | a scan and three snapshots of the store | adopt, update, retire | the snapshots are stale when the store is called | a human's decision is not undone; managed jobs follow their source |
| History (`store/history.go`), sleep gap (`wake.go`) | one line per run; `lastTick`, `busy` | `AppendRun`, trim, `recordSleptThrough` | sleep inferred from the clock; torn lines | a miss is recorded once, and only if it was one |
| Configuration (`config/`, `setconfig.go`, `model/duration.go`) | `cfg`, `config.json` | `Load`, `Normalize`, `setConfig`, `Save` | copy, save, write back; a lossy text form | what was set survives a restart |
| Estimator (`estimate/`), drain (`drain.go`) | the history they are computed from | `Compute`, `Summarize`, `expectedDrainPct` | they feed back into what is recorded next | a hung or cut run teaches nothing; the ceiling covers the runs |
| Schedules (`schedule/`), sleep log (`power/sleeplog_*.go`) | none; the OS's log | `Next`, interval building, miss counting | zone changes; duplicate, short and lost edges | every promised fire, once; misses counted as they were |
| Import (`cli/import.go`, `crontab_apply.go`, `launchd_apply.go`) | the user's crontab and plists, with copies | register, wrap, put back | several external calls, each may fail or be the last | no job lost or doubled |
| Agent hooks (`agenthooks/`, `daemon/agenthooks.go`, `cli/hookscmd.go`) | an agent's own file, `HooksOptOut` | install, remove, reconcile | two programs and the user edit one file | the user's hooks stay; goguma's are there once, or gone |
| Installer (`cli/install.go`, `install/`) | binaries, unit files, services | install, uninstall | a step fails half way, reruns, reboots | what was reported is so |
| Wrapper (`cli/run.go`) | the child, its renewals | start, renew, end | lost renewals, being killed | the hold follows the command |
| Command line, menu bar, webhooks, warnings, advisories | none | display | | not modelled |

Interactions: clients and wrapped jobs send IPC requests to the daemon, which
handles each on a goroutine of its own next to the loop. Both change the hold map
under `d.mu` and both end in `syncSleepBlock`, which pushes "is anything held" to
the helper link; the link's pump turns pushes into calls to the helper, each on a
connection of its own; the helper handles each on a goroutine, next to its
dead-man ticker, and runs `pmset`, whose setting outlives every process.

## 2. What is modelled

### SleepBlock: from the holds to the kernel

The sleep block end to end. One action per step that other threads can see:

* `sync[t]` is thread `t`'s position in `syncSleepBlock`: it changes the holds
  (`ChangeHolds`), reads `len(d.holds)` under the lock (`SyncRead`), writes
  `wantBlocked` (`Push`) and fills the one-slot channel (`Nudge`). The loop and one
  handler run it at the same time, so stale pushes are possible.
* The pump takes the token (`PumpWake`), takes its snapshot (`ReconcileSnapshot`) and
  makes one or two calls; `Repush` asks for the status call as well.
* `conn` is the wire: a call is sent, read (a status between its kernel read and its
  lock), replied or abandoned. `ReconcileTimeout` is `HelperTimeout` going by: the
  caller leaves and the request stays.
* Shutdown is five steps: `Shutdown`, `SettleReturn` (the pump stopped, or two seconds
  passed), the final `SetBlocked(false)`, `wg.Wait`, exit. A crash can come at any of
  them.
* The helper: `HandleSet`, the two halves of `status`, `checkDeadMan`'s decision and
  its release (two actions, because the lock is dropped in between), `Recover`,
  SIGTERM and `Shutdown`. `SetSleepBlocked` is `pmset`: it works, fails, or works and
  is then killed by its timeout and reported as failed.
* `kernel` is `SleepDisabled`. It survives both processes.

`deadManTimeout` is abstract: `quiet` says that 60 seconds have passed since the
last contact. A live daemon pushes far more often, so without fault "stall" that
needs a dead daemon and no request left in the helper. The wake half of `reconcile`
is in WakeSchedule: the two halves share the pump's goroutine and the wire, and no
other state.

`Awake` is what the block promises, in three variables: whether something is held, whether
a request to raise the setting is under way, and the setting. A request begins only while
something is held, and nothing else raises the setting. `SleepBlock` implements it with
`needed <- holding`, `stays <- kernel` and `asked <- Asked`, which collects the places where
a request can be: a thread that has read the holds, the link's `wantBlocked`, the pump's
snapshot, a call in the helper that its caller may have left (`ImplementsAwake`).
The run has the late call, the theorem every other fault as well.

### Holds: the hold map and its racing threads

* `holds`, `served`, `paused`, `cfg` and the store's `jobs` are the daemon's fields of
  these names; `latch` is the cutout latch; `idles` and `displays` count the
  assertions the OS holds for the daemon. `opened` is a history variable: the instant of
  the last window each job had.
* `loop.pc` walks one `tick` or poll: cutout, due windows (a look at the map, then one at
  `d.served`, then the insert, with I/O in between), detection, scheduler state, ceilings.
  `loop.srv` is the served fire that the loop looked at. `captured` is what `pollDetection` keeps over
  the slow read of the process table: pointers to holds that may be finished
  meanwhile.
* `ipc[h]` is one request: keep-awake and its cancel, `goguma run`, agent sessions,
  marks, sleep now, pause and resume, job changes, settings. Each locked section is an
  action. `finishHoldLocked`, `HoldIdleSleep` and the insert that gives way to an
  existing hold are shared operators, as in the code.
* Fire `k` is at instant `2k`; `2k - 1` lies in its wake buffer, which is where an
  ad-hoc run can precede the fire it belongs to.

Abstract: clocks (a hold may expire at any `enforceCeilings`; a process may be gone at
any poll), sensor readings (`hazard`, `margin`, `safe`), run records, webhooks,
notifications and everything that only reports. `evaluateCutouts` writes the latch
without `d.mu` while handlers read it under the lock: a data race on one pointer,
whose outcomes (the old value or the new) the interleavings of the model include.
Shutdown is in SleepBlock, not here: nothing of the map survives it.

### WakeSchedule: the OS wake for the next job

* `thr[t]` walks the loop and one handler through `scheduleNextWake` and `setPaused`:
  the target (`nextWakeTarget` with its skips, the battery floor and what a scheduler
  of its own reports), the decision whether it is registered already, the call, what is
  recorded of its answer. `nextWake` and `wakeOK` are what the daemon claims;
  `scheduledAt` and `cancelPending` are the helper link's.
* The pump retries a cancel and re-asserts a schedule from a snapshot.
* The helper's ScheduleWake is a list, some cancels and an add: separate actions, each
  of which can fail or be the last before a crash. `os` counts entries by instant,
  because `pmset schedule` does not deduplicate.

A skip that crosses another thread's decision is marked by the history variable
`crossed`; the properties say what such a crossing may cost.

### Inhibitor: the block on Linux

One child process per `systemd-inhibit`, its pipe, its waiter goroutine, `inhibitMu`, and
the two callers that meet at it (a request under the policy lock, and Shutdown without
it). Children are refused the lock, late or at once, die, lose it to a logind restart,
or ignore the end of their input; the helper stops or dies, and systemd starts it again
once every child is gone (the unit has `Restart=always` and the default `KillMode`). The
second wait of `stopInhibitor`, after the kill, has no action that ends it: its caller
keeps `inhibitMu`, which the child's waiter needs.

### JobFile and Registry: the job store

`JobFile` is the abstract specification: a file that is replaced as a whole, in one step,
by what the daemon serves together with the broken entries it carries; a stop leaves the
file or its last durable version. `Registry` is the code: the map, the lock, the
temporary file, fsync, rename and write-back, a client's requests (read, edit, put, in
separate requests), and the three passes of a sync, each over a snapshot of its own.
`Registry` implements `JobFile` with `running <- up`, `view <- mem`, `kept <- invalid`,
`blocked <- loadErr` (`ImplementsJobFile`), and this is proved.

Assumed: one client, one sync and one source at a time; nobody edits a readable file by
hand while a daemon is running (its next write replaces the file).

### The parts that stand alone

Each has a module with an initial predicate, a next-state relation and properties of its
own, and shares no state with the others; `MCParts` checks them side by side.

| Module | What it is |
|---|---|
| `HoldClock` | One hold of one kind (command, agent session, window of a job that is invisible, seen by its scheduler's records or by its process) against a clock whose unit is the loop's period: leases that count from the request, renewals by a ticker that starts later and a third of the lease apart, each of them late or lost, wake buffer, detection, ceilings, late completions, what is recorded, sleep-back. The loop's passes are actions, and can be late. |
| `Settings` | `Normalize`'s ranges, `setConfig` from several connections, `config.json` and the text form of a duration, restarts. |
| `Learning` | A job's runs, closed by the job, its ceiling or a cutout, and the ceiling computed from them. |
| `Valve` | The hazards, the latch's hysteresis, over readings that may fail or lack the temperature and with holds that requests open past the latch, the wake floor and the measured cost of a job's nights. |
| `Calendar` | `Next` of an interval and of a calendar in a zone whose offset changes. The cron library is external and modelled by what it returns for the fields. |
| `SleepLog` | What the kernel, systemd and `pmset` write of sleeps and power failures, the intervals read back, and the fires counted in them. |
| `SleepRecord` | `sleepGap` over a wall clock and a ticker, and `recordSleptThrough` with its history file. |
| `Import` | `import --register` over a crontab and a plist, call by call: each call of `PlistBuddy` is a step; one's own plist is edited in place, root's in a copy (`draft`) that is then installed. A restore or a reload that fails is reported as the code reports it, and noted in `unreported`. `plain` is the crontab with the user's own lines. |
| `AgentHooks` | An agent's file, the command, the daemon and the user. `os.WriteFile` is two steps, of which the first empties the file; the new version has one name for both writers, so either may rename what the other has just emptied, and a process goes on writing the file that it has open wherever a rename has put it (`Moved`). A block may hold a command of the user's beside goguma's. |
| `Install` | Install and uninstall, step by step, on both platforms. A copy is opened (as `.new`), then written and renamed; the daemon's unit is emptied, then written; `partial` is what was opened and is not written yet. `sudo install` is taken to be whole, or not done. |

## 3. Runs

| Run | Asks | Outcome |
|---|---|---|
| `sleep_block` | With two faults of the kinds the five layers of `Docs/ARCHITECTURE.md` are for, does the record show every block, does no push get lost, does a clean stop free sleep, is the block never stranded, and does a kept hold reach the kernel? | holds |
| `sleep_block_repair` | After one fault that makes record and kernel disagree, does a daemon that stays up repair the kernel? Is the setting raised only by a request that began while something was held (SleepBlock implements Awake)? | holds |
| `sleep_block_stranded` | Is the block freed whatever happens to the daemon, if `pmset` may time out after it worked? | violated |
| `holds` | Windows and ad-hoc runs of a wrapped job, keep-awake, pause, display setting; two handlers and the loop: is every OS assertion accounted for, is no window of the loop's open under a cutout, is each for a fire later than the job's last window, if none ended since the loop looked? | holds |
| `holds_sessions` | Pattern detection, scheduler reports, agent sessions, run holds, job changes, sync, `agent_hooks`; two fires | holds |
| `wake` | Is what the daemon claims re-asserted, is a skipped fire not woken for, does a wanted wake end up registered once, is a failed cancel retried? Loop, handler and pump, one request, one fault | holds |
| `wake_stray` | Does a cancelled wake end up cancelled, with no fault at all? | violated |
| `inhibitor` | Is no child that holds the lock lost track of, does the record show it, does a block that stays wanted get held (unless `inhibitMu` is lost), and does one that stays unwanted end? | holds |
| `inhibitor_deadlock` | Is `inhibitMu` always returned, if one child ignores the end of its input? | violated |
| `registry` | Is the file what was acknowledged, do broken entries stay, does a sync leave a human's decision alone and follow the source, does the store implement JobFile? | holds |
| `parts` | The properties of the ten modules that stand alone | holds |
| `stall_sleep` | Is a stall of the loop never read as sleep? | violated |

**Bounds.** *SleepBlock.* `MaxConn = 2`: the pump has one call at a time, so two are what
it takes for an abandoned or final call to overlap a new one. `MaxFaults = 2` lets a
restart follow the fault it has to absorb, and two crashes meet; the record faults of
`sleep_block_repair` come one at a time since one is enough to make record and kernel
disagree. *Holds.* One job, one key, one run id and two handlers: a race for an entry of
the map needs two openers for one id, and entries do not interact but through the cutout,
pause and sleep-now, which take them all (the keep-awake, the job, the session and the
run are four entries already). `MaxFire` is 2 where the order of fires matters and 1
elsewhere. Handlers are symmetric: they differ in nothing. `holds_sessions` leaves "mark"
out of the requests of its pattern-watched job (see *Met while modelling*).
*WakeSchedule.* One job with two fires, of which its scheduler may report another: a
target can move forward and back. One request and one fault, so that every request meets
every fault at every step of three callers. `MaxEntries = 4` is never reached by more
than re-asserting once per caller. *Inhibitor.* The wish changes three times, with three
faults, and five children are enough for every start these can cause. A child that
ignores the end of its input can cost `inhibitMu` (`inhibitor_deadlock`), after which a
wanted block is not taken again; `HeldForGood` excepts these behaviours, `ReleasedForGood`
need not, since that child is killed first. *Registry.* Two ids,
two schedules, one request, one move of the source, one hand edit and two faults (a failed
write, then a crash or a power loss).

*MCParts.* A behaviour belongs to one part, chosen in the initial state; the variables of
the others have fixed values in which their properties hold at once ("parked"). So one run
checks ten state spaces, with no interleaving that could not happen, and each property is
about the part it names. `HoldClock`: two fires nine units apart, which is more than the
longest window, its grace, the loop's delays and the late watch together, as `FarApart` of
the proofs asks (nearer fires let a run begin in the window of the fire before), with a
ceiling, grace and maximum small enough that the second window still opens within the
horizon; a lease of six units and so a renewal every two, a start that takes up to one unit and
renewals that are up to one late, together the most that `DelayAssumption` allows (the code
gives a call up after five seconds, a sixth of the thirty between two renewals); one missed pass of the loop; one scheduler death. `Settings`: the edits
lie below, at and above their bounds and include durations without a whole-second form;
two connections, two edits. `Learning`: three windows, runs shorter and longer than every
ceiling, two samples to learn from. `Valve`: readings at, above and below each threshold, and none,
three nights, so that the cost of two is known for the third, the end of which ends the
behaviour. `Calendar`: days of six
units, six days from which fires are looked for sixteen days ahead (a weekly one that a jump
skips is found), a zone that falls back, jumps forward or does so by two units.
`SleepLog`: ten seconds, a window of seven and dark wakes of up to two, so that two sleeps,
a dark wake, one of them across the window's edge, and a power failure fit.
`SleepRecord`: a threshold of four ticks as in the code, naps and stalls shorter and
longer than it and than a tick, three troubles. `Import`: two crontab lines whose patterns could be taken
for each other, a plist in five forms (Program, arguments or both, equal or not, root's or
one's own, wrapped already), one edit by the user, every call failing.
`AgentHooks`: both processes, two failures, edits or moves, an agent that has a configuration
(the theorem covers one that has none); the two at once are followed until both rest, and
only where nothing fails, since nothing is claimed of them. `Install`: two releases, three
commands, two mishaps, so that one can be what the next command has to cope with.

Bounds end a behaviour in `wake`, `wake_stray`, `parts` and `stall_sleep` (the clock runs
out, or the budget of an installation does), which is why these do not check for deadlock;
in `inhibitor_deadlock` and `inhibitor` the deadlock is the finding.

**Fairness.** *SleepBlock.* Weak fairness for every goroutine step that is ready: the Go
scheduler runs it. An answered call returns; a ticker ticks, so `SyncRead` by the loop
recurs, since every poll ends in `syncSleepBlock`, which nudges the pump whether or not
anything changed; that is the only retry the liveness properties rely on. The helper is
restarted (`KeepAlive`, `Restart=always`). Nothing obliges anyone to start the daemon, to
open or release a hold, to repush, to shut down, or to inject a fault. *WakeSchedule.* The
loop ticks and finishes what it started, the handler finishes, the pump wakes (its repush
ticker), each request that reached the helper goes on, and the daemon is restarted.
Nothing obliges the clock to advance, a request to come, or another thread to cross.
*Inhibitor.* A request and Shutdown go on while they can, waiters and children do what
they are about to, the helper is restarted. *Registry.* The holder of the lock finishes
its write, the sync comes round (its ticker), the daemon is restarted. *Holds* and the
parts have safety properties only.

### What the violated runs say

1. `sleep_block_stranded` (`service.go:214`): a `pmset disablesleep 1` killed by its
   timeout after it took effect is not recorded. If the daemon then dies, the dead-man
   switch sees nothing to clear, and sleep stays disabled until either process starts
   again. `Docs/ARCHITECTURE.md:147` says it can never be stranded.
2. `wake_stray` (`helperlink.go:117`): a cancel that is carried out between the pump's
   snapshot and the ScheduleWake it leads to is undone, and nothing is left to cancel the
   entry: what `helperlink.go:151-154` is there to prevent.
3. `inhibitor_deadlock` (`sleepblock_linux.go:206`): after killing a child that ignores
   the end of its input, `stopInhibitor` waits for `done` with `inhibitMu` held, and the
   waiter that would close it waits for `inhibitMu`. `sleepblock_linux.go:46-48`: "A wedged
   subprocess must not be able to deadlock the helper's policy lock".
4. `stall_sleep` (`wake.go:316`): a tick that came due during a stall carries its due
   time. The stall is taken off that tick's short gap and forgotten; the next tick
   measures it again and reads it as sleep, and fires that the machine was awake for are
   recorded as slept through.

### Met while modelling

Disagreements between the code and its own words, or surprising outcomes, that the models
contain or leave out as stated, and that no run checks.

*Holds.* `openAdHocWindow` (`handlers.go:475`) never looks at the latch, so a wrapped job
that starts during a cutout opens the hold that `keepawake.go:65-71` argues must be
refused. A pause between the loop's check and its insert leaves a scheduled window open,
which `daemon.go:777-780` says cannot be. An ad-hoc run in the wake buffer of a served
fire moves `d.served` back, and that fire's window opens again (`WindowForNewFire` compares
with the job's last window, which was for an earlier instant then). A run that the job
reports between the loop's look at `d.served` (`daemon.go:421`) and its insert (`:474`), and
that ends there too, is served again: only the map is looked at at the insert. Both are
against `daemon.go:414-420`, "A fire already served is done". `updatePatternHold` (`daemon.go:564`) finishes the hold captured before the
process table was read: if the job has ended and reported a new start meanwhile, the new
hold's entry is deleted and its assertion stays taken (with "mark" among the `Requests` of
`MCHoldsSessions.cfg`, `NoOrphanedAssertion` is violated). A cutout with nothing held does
not latch, so `openDueWindows` opens a window into a live hazard for one tick.

*Wake.* A job change, a skip or a sync during a pause schedules a wake. On Linux,
ScheduleWake and CancelWake clear an RTC alarm that somebody else set, although
`sleepblock_linux.go:333-335` and `:420-423` say that a cancel cannot: the alarm that is
cancelled is the one that was just listed. Uninstall's comment that "a daemon that is not
running has nothing registered" (`cli/install.go:485`) is wrong for one that crashed.

*Linux inhibitor.* A start that polkit refuses only after the grace is reported as a
success, and repaired by the next push. A child that died since the last call cannot be
reaped while a call holds `inhibitMu`: that call waits out its five seconds and fails on
the kill ("process already finished"); the next one succeeds.

*Hold clock.* `cli/run.go:193-194` says that two consecutive lost renewals "still leave the hold
standing". The third is due a whole lease after the last one that arrived, and later still
counted from the request; a poll may close the hold before it. `HoldFollowsCommand` promises
one lost renewal, which is what `run.go:242` asks for. `maxRun` bounds the renewals and not the deadline, so a hold may live a lease
longer. A late watch is not dropped when the next window opens, and a run that lasts into
the next window's opening is credited to that window too. `maybeSleepBack` looks at the
holds only once it is due, and a hold opened between its decision and the call is slept
over. A claim that a dead scheduler left is believed until `MaxCeiling`.

*Settings.* Two overlapping `config set` lose one of the settings in memory, on disk or in
one of the two, and share one temporary file, which is not synced before the rename.
`HumanDuration` is not the exact inverse of `ParseDuration` that `duration.go:76-88`
claims. `HistoryWindow` may be set below `MinRunsForEstimate`, and no ceiling is ever
learned. `CutoutRearmMarginC` has no upper bound: a latch that can never clear with the
lid closed.

*Valve.* A failed `ReadState` clears the latch (`daemon.go:346-357`: the lid looks open), and so
does a missing temperature after a temperature fired it (`cutout.go:206`). The windows open
again, and the next tick that can read the machine fires over the same hazard. `cutout.go:165`
says that the latch holds "until the hazard genuinely recedes by a margin", and
`power.go:110-113` that an unknown temperature must not be taken for a cool one. `NoFlapping`
counts both readings as the end of the hazard (`Eases`), as the code does.

*Calendar.* In the repeated autumn hour a fire is returned again in its second pass,
against `schedule.go:311-313`; hourly and two-slot schedules lose or gain a fire at a
change. A schedule in plain English that never occurs is accepted.

*Sleep log and history.* On Linux a suspend that was never resumed is closed by the resume
of the next sleep, against `sleeplog_linux.go:253-260`; on macOS one that began before the
cutoff is dropped. A dark wake right after a sleep that ended at or before the window's edge is not
known for one, so that a fire in it counts as not missed (the proof asked for the sleep to
be in the window, and TLC shows it with dark wakes of two seconds). A torn last line swallows the next one as well, so a corrupted tail
loses two runs, where `history.go:21-24` says one. If the loop was blocked when the machine
fell asleep, a fire up to two ticks after that, or in the last tick of the sleep, goes
unrecorded: the busy time is taken off the sleep's beginning, and the pending tick is stamped
before its end (a failed proof showed both; `SleptThrough` says so now). A fire within the wake buffer before a
late wake, or whose window was open when the machine slept, is recorded both as slept
through and as a run.

*Store.* An `Add` whose write fails leaves the job active, and the retry is told that it
exists. A failed `Put` of a sync is not written again until something else changes.

*Import.* An edit of the crontab between `crontab -l` and the last `crontab -` is overwritten
(`crontab_apply.go:32-47`, or by the restore at `:55`), where `:27-28` says that a crontab
edited in the meantime is "refused rather than clobbered"; `plain` in the model is without
such edits. Each wrap overwrites the one backup, so that "your original is saved at"
(`:57`) may name a copy of what the failed wrap before it had left. If putting the plist back
fails, or the reload after it, the error is not looked at and the report is that it was put
back (`launchd_apply.go:72-96`, `249-257`); `os.WriteFile` may have emptied it. The pattern
offered for a job that cannot be wrapped is not tested with `Distinctive`, nor is any against
jobs that were filtered out. A wrapped plist that is registered by pattern can never match.
An import that is killed between two calls of `PlistBuddy` leaves a plist that the next takes
for wrapped (`:51-54`), although Program may not be repointed yet, the trap that `:117-122`
describes. A plist whose Program and first argument differ runs that argument after the
wrapping, and not its Program, where `launchd_apply.go:115` says that the wrapper goes in
front of whatever the job runs: `commandOf` is what the plist names, and `PlistKept` says
that all of it runs in the wrapper.

*Agent hooks.* While the daemon and a command edit one file at once, the one may rename the
new version that the other has just emptied (`agenthooks.go:329-333`): the file is then empty,
which `ReadConfig` takes for `{}` (`:184`), and the user's hooks are gone unless the copy is
looked for, where `:307-310` promises that the file is never left worse than it was found. A
version that does not parse is restored in place (`:344`): a death or a failed write at that
point leaves it empty, and the next edit copies the empty file over the backup. If the
configuration could not be read for the backup, or the backup for the restore, the error
still says that the original was restored (`:347`). A block that holds both the user's and
goguma's command is dropped whole (`:247`), against "drop only entries carrying goguma's
marker" (`:226`). `hooks remove` of one agent opts out of all, and `hooks install` of one
brings all back at the next start. A reconcile that overlaps `hooks remove` puts the hooks
back. `hooks remove` creates a file where there was none. A user who breaks the file and
repairs it while an edit is on its way may get the broken copy back when that edit fails;
this came to light in the proof. `HooksKeepUsersFile` covers no overlap of the two
(`together`), no edit of the user's in the middle of one of goguma's (`userRaced`), no restore
that is cut short (`cutShort`), and no hook in a block of goguma's (`UsersOwn`).

*Installer.* On Linux an upgrade leaves the old daemon and helper running. `install.go:3-6`
promises that uninstall leaves nothing behind. A copy that is killed, or whose rename fails,
leaves a `.new` (`install.go:71-85`) that is in no list; only the next install overwrites it. A
refused `launchctl bootout` of the daemon is ignored (`launchd_darwin.go:281-284`), and the
uninstall is reported as clean. One of the helper is reported, but its plist is removed all
the same (`:285-289`, `:317-324`), so that a rerun does not ask for it any more and reports
"uninstalled cleanly" with the root helper still loaded. `InstallIsHonest` excepts these
three (`abandoned`, `refused`) and nothing else. `BinDir/goguma` is removed before the steps
that need root, so a failed uninstall cannot be rerun from there.

## 4. Proofs

Every constant is arbitrary within the ASSUMEs of the modules. TLC checked each inductive
invariant before it was proved.

### SleepBlockProofs

* `TypeCorrect`: TypeOK is inductive by itself. Each half of the system leaves the other's
  variables alone (`HelperFrame`, `DaemonFrame`), which cuts the case analysis in two.
* `PushesReachThePump`: `Spec => []NoLostPush`, under every kind and number of faults.
  NoLostPush speaks of an idle pump and is not inductive: the pump may be woken and not
  yet have taken its snapshot. `PushInv` says that, while the daemon is up, either the
  pump has the last push, or the token is there, or the pump is about to take its
  snapshot, or a thread is about to fill the channel, and that a daemon that is down
  wants nothing.
* `DeadManNeverBlind`: `Spec => []DeadManSeesBlock` if `RecordSurvives`, that is, without
  the three faults that make record and kernel disagree (the violated run shows that
  the assumption is needed). The danger is a status reply: it read the kernel without
  the lock and overwrites the record later. `CallsInv` says that the pump and the
  shutdown path have at most one call each in flight, so while a status is between its
  two halves no request that sets the block exists, and what it read as FALSE is still
  so when it is written (`ReadInv`).
* `CleanStopHolds`: `Spec => []CleanStopFreesSleep` if no request outlives its caller.
  `StopInv` follows a stop from `Settle` to the exit: the pump has exited and has no
  call left, so nothing can set the block after the final call has cleared it.
* `BlockImplementsAwake`: `Spec => Abstract!Spec` (ImplementsAwake), under every fault. It
  needs the types alone. The helper's steps carry a request on, drop it or carry it out
  (`HelperAsksLess`, `HelperRaises`); of the daemon's only `SyncRead` begins one, and
  reads the holds in that very step (`DaemonAsksLess`). It bounds what stale state can do: a
  thread, a snapshot or a call that has fallen behind can finish a request that was once
  justified, and none can begin one.

### HoldsProofs

* `TypesCorrect`: the types of all variables but the two assertion counters, and
  `CutoutShutsWindows`: `Spec => []LatchKeepsWindowsShut`, for any number of jobs, keys
  and handlers. `LatchInv` adds that the loop is not between check and insert while
  the latch is set, and that no handler ever has a window of the loop's in hand; the
  first holds because the loop is the only one to set or clear the latch.
* `AssertionsAccountedFor`: `[]NoOrphanedAssertion`, with two hypotheses that exclude the
  two races of *Met while modelling*. `NoPatternMarks`: no job is both watched by a
  process pattern and wrapped, so that `updatePatternHold` finishes the hold it captured.
  `OneSetting`: not both of the two settings are changed, so that no stale copy of the
  settings undoes the other. The counters are compared with what should be counted: the
  holds in the map that have an assertion, and those that a thread has in hand between
  its locked sections (`IdleCount`, `DisplayCount`, sums over the map, the loop and
  the handlers). `HandInv` says what each thread may have in hand, `MapInv` what a slot
  of the map, a served fire and a captured pointer may be.
* `FiresServedOnce`: `WindowForNewFire`, with `NoPatternMarks`. While a job has no hold,
  `d.served` is the instant of its last one (`OnceInv`), because `finishHoldLocked` is the
  only way out of the map; so an insert after the look at `d.served` (`LoopHand`) is for a
  later instant, or `d.served` has changed since.
* `CountersCorrect`: with `NoPatternMarks` the full `TypeOK`: no counter goes below zero.

### HoldClockProofs

The invariants say how far the loop is behind (`Lag`: one unit, and the units it has been
stalled, until the pass that looks is through), and bound each instant by it. They hold
for any lengths of lease, buffer, ceiling, grace and stall.

* `ClockInvariant` and `TypesCorrect`: `ClockInv`, from which follow the next three.
* `LeasesFollowCommands`: `[]HoldFollowsCommand`, for any lease and any delays that together fit
  into the time between two renewals (`DelayAssumption`). `CommandInv` says when the next
  renewal is due, counted from the last that arrived: a start's delay and a third of the lease
  after it, and a third more if one was lost. `LeaseInv` bounds a hold by its lease.
* `WindowsClose` (`[]WindowEnds`), `SeenJobsAreKept` (`RunningJobKept`): every window closes
  by its limit, and that of a job seen to run is closed by nothing but its end, its own
  maximum, or `MaxCeiling`.
* `SleepsAreEarned`: `SleepIsEarned`. A decision to sleep rests on a window that closed a
  grace ago (`Earned`), and holds seen since disarm it or make it a crossing.
* `RecordsAreTrue` and `LateRunsLearned`: `[]RecordsTellTheTruth` and `[]LateRunLearned` if
  `FarApart`: the distance of two fires exceeds a window's longest wait for its job, the
  longest the job is held, the late watch and the loop's delays. Without it TLC finds
  `RecordsTellTheTruth` violated: a stalled loop looks only after the next run has begun.
  `RecordInv` is about the scheduler's record, `WaitInv`, `LateInv` and `LearnedInv` about
  what the loop is still to see of it in an open window, in a watch, and after both.

### WakeScheduleProofs

* `TypesCorrect`: no thread, call or list ever names an instant that is not one.
* `ClaimsAreReasserted`: `[]ClaimIsReasserted`. `OneAtATime` says that, until two threads
  crossed, at most one is in `scheduleNextWake`; `ClaimInv` then says where that thread may
  have parted the daemon's record and the link's. `PileInv` counts the equal entries of an
  instant together with those that calls are about to add: three callers, and one more for
  each fault. So `MaxEntries >= 3 + MaxFaults`, the theorem's hypothesis, makes the bound of
  the model one that is never reached.
* `SkipsHonoured`: `[]SkipHonoured`, from `SkipInv`: each step of a thread, from its target
  to its record, is for a fire that no skip covers.
* `RecordInvariant` and `MissesAreRecordedOnce` (`[]MissRecordedOnce`), of SleepRecord, for any
  fires, sleeps, stalls, kills and settings of the clock, and any threshold of four ticks or
  more. `TickerInv`: the busy time covers what a tick is late by. `SleepInv`: the wall clock
  has run ahead of the ticker by what the machine slept, and every instant since the last
  tick lies in a sleep or so near one as the awake time allows (`Among`), so that what a tick
  finds between the busy time and its stamp is within a tick of a sleep (`RecordedNear`).
  `NotedInv`: a long sleep is still to be looked at, or its fires are on record.
* `SleepLogInvariant` and `RisksAreHonest` (`[]RiskCountsMisses`), of SleepLog, for any
  sleeps, dark wakes and duplicates, gap, window, period and cap. What the log says is
  related to every second of the past: `JournalInv` (until a power failure, the machine was
  down from a suspend to the next resume) and `PmsetInv` (it was down in what the line of a
  sleep stands for, `Spans`). What is read of it is then right from the first second that
  it reaches back to (`LinuxRead`, `DarwinRead`). Apart from that, `JoinedCovers` and
  `HistoryCovers` say what merging and coalescing any intervals covers: the intervals, and
  the gaps between two of them that are short. Merging and coalescing are written over sets,
  so that these need no induction over what the code sorts.

### InhibitorProofs

* `TypeCorrect`, `NoUntrackedChild` and `RecordNeverBlind`: `[]ChildTracked` and
  `[]RecordShowsChild`, for any number of children, changes and faults. Neither is
  inductive: `CallsInv` says that only the holder of `inhibitMu` is inside
  `setSleepBlocked` and what each of its steps knows of the child it started or stops;
  `RecordInv` is RecordShowsChild with the windows in which the holder is about to bring
  the record in line.

### RegistryProofs

* `TypeCorrect`, `AcknowledgedIsDurable` and `BrokenEntriesStay`: `[]FileIsMemory` and
  `BrokenEntriesKept`. The invariant (`IInv`) adds that a file the running daemon may
  write says what the daemon serves but for the failed changes and the one under way
  (`InStep`), and that nothing is renamed before it is on the disk (`Flushed`).
* `RegistryImplementsJobFile`: `Spec => Abstract!Spec`, step by step: `Rename` is a
  `Commit`, the change of memory an `Alter`, a write-back a `Settle`, a crash or power
  loss a `Stop`, and every other step a stutter. `Flushed` is what makes a power loss
  leave a whole file.
* `SyncLeavesHumansJobs`: `HumanDecisionStands`. `SnapInv` says that a job in one of the
  sync's three snapshots is still what it was there, or was touched since.
* `SchedulesFireAsPromised` (`[]FireAsPromised`), of Calendar, for any intervals and anchors,
  any calendars whose times of day are further apart than the clock ever jumps (`Sparse`) and
  asks outside the hour that is repeated, where the code answers with the repeat
  (`schedule.go:311-314`); any length of the day, and any zones whose clock is changed by less than a day
  and not twice within four weeks (`ZonesAssumption`). `AnchorNext` says that the time
  `nextFromAnchor` computes by division is the least of the lattice that is later.
  `NextWithinTwoWeeks`: whatever the clock does, a calendar that fires at all fires within
  two weeks (`WeeklyFire`), so that there is one change to think of (`OneChangeAhead`) and
  Next calls itself at most once; `CalendarNextIs` takes the answer out of the recursive
  function by exhibiting one that satisfies its equation, which needs no induction. Then
  there are three cases: no change before the library's fire (`PlainFire`), a jump forward
  (`JumpForward`: the fire is skipped if and only if the fixed offset from before shows it in
  the hour that is jumped) and a fall back (`FallBack`: the twin of a repeated fire showed
  the same time in the first pass, and the next fire comes after the second, because the
  times of day are further apart than the change, which is what `Sparse` is for).

### SettingsProofs

* `SettingsInvariant`: whatever was asked for and whatever the file held, the daemon runs
  with and writes only settings in their ranges. `SettingsSurvive`: the text form of a
  duration is not the duration; the lemmas on `HumanDuration` say by how much it may
  differ, that a second round of writing and reading moves nothing, and that `Normalize`
  leaves what is in range as it is.
* `ValveInvariant`, `WakesAreWorthIt` (`[]WakeIsWorthIt`) and `LatchesHold` (`NoFlapping`),
  for any thresholds, readings and costs. `LatchInv`: until a reading has shown the last
  cutout's cause to be over, its latch is engaged, since giving way takes such a reading. They ask that the margins are positive
  (`ThresholdsAssumption`), and `SettingsSuitTheValve` discharges it: the daemon never runs
  with others.
* `LearningInvariant`, `CeilingsCoverRuns` (`[]CeilingCoversRuns`) and `HungRunsTeachNothing`
  (`HungRunTeachesNothing`, which is proved and not run), for any history. The n-th of the
  sorted durations is the value
  that fewer than n of them are below and at least n not above (`SortedIs` finds it as the
  least such, by counting), so that at most one in twenty is above the 95th percentile
  (`PercentileCovers`) and the median is not (`MedianIsTypical`). A history is a function on
  the places of its runs, and a run that does not train leaves the function of completed
  durations the same (`SameLessons`). They ask that the multiplier is not below one
  (`LimitsAssumption`), which `SettingsSuitTheEstimator` discharges.
* `HooksInvariant` and `UsersFilesAreKept` (`[]HooksKeepUsersFile`), for any harness,
  directories, user's file and number of failures. `OwnInv`: while an edit is on its way, alone
  and with no restore cut short, the user's hooks are in the file, in what is to replace it
  and in its copy. `DocInv`: what a
  process is to write has goguma's hooks, or none, as it was asked for. `PromiseInv`: as long
  as the two do not overlap, what the user was told is kept by what is still under way, and a
  removal is on record before the daemon can put the hooks back. The blocks of a list that
  are the user's are its places, in order, the n-th being the one with n - 1 before it
  (`Picked`), because the prover knows nothing of SelectSeq; `PlaceIs` finds that place as the
  least with enough of them before it. It is assumed that the user's hooks are not goguma's
  (`HooksAssumption`).

### InstallProofs

* `InstallInvariant` and `InstallsAreHonest`: `[]InstallIsHonest`, for any releases, commands,
  failures, kills, crashes and reboots. A command is k steps into its list (`After`), and
  what those steps are for is there (`Placed`) or gone (`Gone`), in an order that keeps the
  rest so: a program is put in place before its service is loaded, a service stopped before
  its program goes (`Plans`, `RemovalOrder`). `Backed` is what a killed command leaves to
  the next: no service without its program, nor the helper without the unit file that
  uninstall looks for, but for one that would not stop. `LeftBeside`: a copy is half done only
  while the command is at it, or after one that was cut short.

* `ImportInvariant` and `ImportsKeepJobs`: `[]ImportKeepsJobs`, for any candidates, crontab,
  plists and words. `ImportInv` says of each place in the script what its calls have done so
  far (`PlaceInv`). `CrontabInv`: until the line is replaced, what was read is what the user
  has; then the crontab is that but for this line; after it, each line is the user's or the
  wrapper of a job reported as wrapped (`Agrees`); what the user did between a read and the
  write that follows is not in `plain`, which the write sets to what it was at the read.
  `PlistInv`: the plist being edited is the original after its first k edits
  (`AfterEdits`), all of them make the wrapped plist (`InWrapper`), and launchd has loaded
  one of these two or nothing. `PatternInv`: a registered pattern was tested with
  `Distinctive`. It is assumed of the input that one scan finds at most one launchd job
  (the model has one plist), that a job wrapped before has the name of its wrapper, and that
  no crontab line is yet what this import would write (`CandidatesAssumption`,
  `CrontabAssumption`, `PlistFormsAssumption`).

### Model-checked only

Out of the prover's reach: liveness under fairness (`ReleasedForGood`, `RepairedForGood`,
`HeldForGood`, `WantedWakeHeld`, `CancelRetried`, `ManagedSettles`). Every invariant and
every action property that the runs check is stated by a theorem. No module uses RECURSIVE
operators.

## 5. Plan

What is left, in order of worth.

1. The RTC half of the Linux helper (one alarm, no owner) as a second backend of
   WakeSchedule.
2. Two sources and two clients in Registry.

## 6. Not modelled

Parsers (crontab, launchd and systemd files, plain-English schedules, application
manifests) and what is printed: text in, text out, and TLC has nothing to interleave
there; the modules start from what a parser returns. Framing, peer credentials and encoding
of the IPC. The platform calls (IOKit, ioreg, sysfs, D-Bus, the process table), which appear
as readings and as calls that may fail. The command line's read-only commands, the menu bar
app, webhooks, warnings and advisories, which hold no state that the daemon acts on.
