# Verification of the ZeroGravity spacecraft monitor

TLA+ models of the onboard monitor in `src/` (a FreeRTOS application for the POSIX
simulator), TLC runs that check them on small instances, and TLAPS proofs that hold for
every instance. Paths such as `src/src/monitors.c:119` are relative to the directory that
holds `src/` and `tla/`.

## 1. The system: inventory

One process runs a FreeRTOS kernel on one core: fixed-priority preemption, time slicing
among equals (`include/FreeRTOSConfig.h`). All state is shared memory; almost none of it is
protected by a lock.

| Part | State it keeps | Operations | Hard behaviour |
|---|---|---|---|
| Scheduler helpers (`task_scheduler.c`) | task handles, three data queues, event group | `vSchedulerInit`, `vSpawnResponder`, `vKillResponder` | test of a handle, then a second read of it; called by tasks of two priorities |
| Monitors (`monitors.c`, priority 3) | a local record per loop | read signals, send, set or clear event bits, spawn or kill responders | act on a snapshot; preempted at every call |
| Responders (`responders.c`, priority 7) | none | poll the signal; clear the own handle and delete the own task | race with the kill of monitor and watchdog |
| Watchdog (`tasks/watchdog.c`, priority 10) | heartbeat array, spawn stamps | recreate monitors, check heartbeats, kill responders after 10 s | dangling handles, unsigned time arithmetic, two reads of the clock |
| Recovery manager (`tasks/watchdog.c`, priority 8) | none | wait for any event bit, log | bits set while it is busy |
| Logger (`logger.c`, priority 9) | log queue (32), print mutex, file | `log_event`, `log_status_line`, the logger task | one static format buffer for all tasks; bounded waits that drop; `printf` outside the mutex |
| Sensor simulator (`sensor_simulator.c`, priority 1) and adapter (`simulation.c`) | signal values, phase, leaks | `sim_tick`, `sim_heartbeat`, getters | time line, integer truncation, a heartbeat between two reads of the clock |
| Ground station (`main.c`, priority 3) | none | heartbeat every 800 ms unless blacked out | races with `sim_tick` over the heartbeat stamp |
| Hooks and start-up (`main.c`) | none | `vApplicationMallocFailedHook`, task creation | the hook spins in its caller |
| Telemetry export (`telemetry_export.c`, twice) | none | classify signals, write a file | not in the Makefile, names two handles that do not exist, never called |
| Dashboard bridge (`dashboard/serve.py`) | shared state, log ring | tail and parse the log, serve `/api/state` | a log that is recreated, lines it cannot classify |
| Dashboard page (`dashboard/index.html`) | view state | draws, or plays a demonstration | none that the monitor depends on |
| Placeholders (`tasks/dynamic_tasks.c`, `tasks/monitor_tasks.c` and headers) | none | none | none |

Interaction: the simulator writes the signals, monitors and responders read them; monitors
create and delete responders through the handles; the watchdog recreates monitors and
deletes responders through the same handles; event bits flow from monitors and watchdog to
the recovery manager; log messages flow from every task through one queue to the logger and
from its file to the dashboard bridge.

What makes each part correct:

* lifecycle: never two responders for a signal, none that cannot be found, a responder for
  every persistent fault and none for long after it; monitors always running;
* watchdog timers: a frozen task is noticed in time, a healthy one is not, a responder is
  killed when it is over age and not before;
* log service: a logged message is one message, whole and once; nobody waits for ever;
* simulator and thresholds: spawn and recovery conditions are complementary, the time line
  produces the faults it announces;
* bridge: what it shows is what the log says.

## 2. Modules

In the order of what the system depends on most:

| Module | Subject | State |
|---|---|---|
| `ResponderLifecycle`, `ResponderService` | handles, task creation and deletion, the watchdog's checks; what responders promise | checked; `ResponderLifecycleProofs` |
| `WatchdogTimers` | heartbeats, spawn stamps, wrap-around | checked; `WatchdogTimersProofs` |
| `LogService` | static buffer, queue, mutex, lock on stdout | checked; `LogServiceProofs` |
| `Thresholds` | the limits where monitors, responders, status line and export draw them, truncation | part of `scenario`; `ThresholdsProofs` |
| `DashboardTables` | the phases, the time line and the responder map of the bridge | part of `scenario` and `bridge` |
| `SensorSimulator` | `sim_tick`: time line, signals, leaks, heartbeat and gap under preemption | part of `scenario`; `SensorSimulatorProofs` |
| `Scenario` | composition in time: simulator, monitors, responders, watchdog, with the real periods | checked; `ScenarioProofs`, `ScenarioStoryProofs` |
| `DashboardBridge` | log file, `tail_log`, `apply_to_state`, `/api/state` | checked; `DashboardBridgeProofs` |

Two views of the same tasks complement each other. `ResponderLifecycle`, `WatchdogTimers` and
`LogService` have every interleaving and no (or abstract) time: signals move freely. `Scenario`
has the real times and signals and lets each task run from one delay to the next at once, in
the order of the priorities. `WatchdogTimers` uses the responders as `ResponderService`
describes them, and `DashboardBridge` takes from the monitor only that it writes lines.

What a later version could add: a bounded lossy channel as an abstract specification of the
log service, a "silent for longer than a timeout" detector as one of `WatchdogTimers`, and the
start-up order with the hooks as a module of its own.

## 3. `ResponderLifecycle`: tasks and handles

A *block* (`Addr`) is a piece of heap that can hold a task control block; a handle is the
address of a block, so a handle can dangle and can name another task than the one it was
made for. `role[a]` is the monitor or signal whose task lives in block `a`, `pc[a]` where that
task is, `"zombie"` a task that deleted itself and waits for the idle task, `"free"` a block
that can be allocated. `monHandle`, `respHandle`, `bits` and `dataQueue` are the globals of
`task_scheduler.c`; `seen[a]` is the monitor's local record, reduced to the signals that are
beyond their threshold; `rec` and `wd` are the recovery manager's bits and the watchdog's
position.

| Action | Code |
|---|---|
| `MonWake`, `MonRead` | `vTaskDelayUntil`; reading of the signals and the send to the data queue |
| `MonCheckCritical`, `MonCheckNormal` | the comparison, the event bit and the call of a helper |
| `MonSpawn`, `MonCreate`, `MonAllocFails` | `vSpawnResponder`: test, `xTaskCreate`, malloc-failed hook |
| `MonKill`, `MonDelete`, `MonDeleteCrashes`, `MonClear` | `vKillResponder`: test, `vTaskDelete(*pxHandle)`, store of NULL |
| `RespWake`, `RespPoll`, `RespUnhandle`, `RespExit` | one responder function; the five have one shape |
| `WdWake`, `WdMonitorAlive`, `WdRecreate`, `WdAllocFails`, `WdResponderPasses`, `WdKill`, `WdKillCrashes` | `vWatchdogTask` |
| `RecStep`, `SimStep`, `IdleStep` | recovery manager, one store of `sim_tick`, idle task |

Scheduling is part of the model, because the properties rest on it: `CanRun(p)` lets a task of
priority `p` act only when no task of a higher priority is ready. What happens inside one
action is what no other task can observe or undo: the watchdog cannot be preempted, so its
call of `vKillResponder` is one action; a monitor can be preempted between any two kernel
calls, so its call is three. What the kernel does with a dangling handle is undefined:
`AliveReadings` allows every answer for a freed block, and deleting a task twice ends the
process (`halted`).

Abstractions. A signal is either critical or not, and changes at any time the simulator may
run. A delay, and a responder's time to live, end at any moment. The signal of the free heap
(`HeapKinds`) also changes with every allocation. The stack high-water warnings, the text of
the messages and the locks inside `printf` are left out (the last are the subject of
`LogService`).

Properties.

* `AtMostOneResponder`, `NoOrphanResponder`, `NoOrphanMonitor`: the handles, although nobody
  locks them, never lead to two responders of a signal or to a running task that no handle
  names. They hold because responders have a higher priority than monitors: a responder that
  has cleared its handle is gone before a monitor can look at it.
* `SnapshotFresh`: a monitor that was preempted any number of times still acts on current
  values, because the simulator has a lower priority.
* `NoPendingCriticalEvent`: the clear of an event bit on the normal path erases nothing.
* `ResponderStops`, `CriticalIsServed` (liveness) and `ImplementsService` (refinement).

Runs.

| Run | Instance | Shows |
|---|---|---|
| `lifecycle` | memory monitor, monitor of two sensors, 3 signals, 4 blocks | all invariants, the inductive invariant of the proofs, and the refinement of `ResponderService`; 4.4 million states |
| `lifecycle_live` | 1 monitor, 2 signals, 3 blocks | liveness under `FairSpec` |
| `monitor_lost` | as `lifecycle` | **fails**: `vKillResponder` can delete the monitor that calls it |
| `double_delete` | as `lifecycle` | **fails**: watchdog and monitor delete the same task |

Bounds. Two monitors give the interleavings of equal priorities; the monitor with two signals
gives a snapshot that is used twice, the memory monitor a signal that the creations themselves
move; one signal is not in the watchdog's list, as the CPU responder is not. Four blocks are one
for each monitor and two for responders, so allocations fail, blocks are reused and a responder
can take over the block of another. `QueueLength` is 1 in `lifecycle` and 0 in `lifecycle_live`: the
queue never influences another variable. With two monitors liveness takes far longer than with
one, and the competition that liveness is about is between monitor, watchdog and responder.

Deadlock is not checked: a process that has crashed or whose watchdog is caught in the hook stops.

Fairness (`Fairness`). Delays end, so the wake-ups are weakly fair. A ready task is disabled
whenever a task of higher priority is ready; these tasks block after a few steps, and
the scheduler chooses a task again: strong fairness for the steps of monitors and responders.
Nothing forces the simulator to move a signal or the watchdog to find a time to live expired.
The liveness properties exempt the two states in which the code itself is stuck for ever
(`halted`, and the watchdog in the malloc-failed hook). `CriticalIsServed` also assumes
that the handle is not stale, which the double deletion can make it. A delay in the model may be
arbitrarily short: with three signals or more the responders of two others and the watchdog
could keep the processor between them and the monitor out for ever. The instance of `lifecycle_live`
has one other responder, which must sleep while the monitor runs; in the code delays of 500 ms and more, for
microseconds of work, exclude this for any number.

## 4. `WatchdogTimers`: clocks and stamps

All times are unsigned and wrap around (`Sum`, `Elapsed`, modulo 2^`Width`), and 0 stands for "no
stamp". A pass of the watchdog is `WdWake` (reads `t_ms`), `CheckHeartbeats`, `TrackSpawn` for
every responder of the list (reads the clock again) and `RespectTTL` or `EnforceTTL` for each.
Only `Tick` interleaves with it, since no task can. `KickRead` and `KickStore` are the two
halves of `watchdog_kick`. Responders start and end at any time, as `ResponderService` allows.
Four history variables measure real time: `age`, `held`, `quiet`, `unwarned`.

| Run | Shows |
|---|---|
| `timers` | `KilledInTime`, `KillIsDue`, `SilenceIsNoticed`, `NoFalseAlarm`: two responders and one task, across the wrap-around |
| `timers_underflow` | **fails** `KilledOnlyWhenOld`: a tick between the two clock readings of a pass; `t_ms - spawn` wraps around and a new responder is killed at once |

So a responder is never killed late, but it may be killed early, in two ways. One is the run that
fails. The other needs no tick in a pass: a stamp belongs to the handle, so a responder that was
replaced between two passes leaves its stamp to its successor, which is then killed although it
is younger than "longer than WATCHDOG_RESPONDER_TTL_MS" promises. `KillIsDue` says there is no
third: unless the stamp is ahead of the clock reading, the *place* was taken for longer than a
time to live. Bounds: a clock of 4 bits with time to live, timeout and period of a few ticks,
related as `TimerAssumption` asks; at most one tick in a pass (`PassTicks`; a pass takes
microseconds) and one between the halves of a kick (`MaxStall`): time stops rather than let
a kick that has begun wait longer. A task that never comes to the second half (one of higher priority
spins in the malloc-failed hook) behaves as one that never began the kick, because nobody
sees the first half; what is left out is a second half that comes after a longer stall.
History variables saturate at `Cap`, above every limit they are compared with. The proofs (section 8) are for all widths and
times. `KilledInTime` speaks of the responders in the list; the CPU responder is not in it
(`watchdog.c:147`) and is never aged.

`SilenceIsNoticed` counts from the last kick or alert of a task, with one exemption that is the
code's: a stamp of 0 means "none" (`watchdog.c:133`), so a kick or an alert that read clock 0
leaves a task that looks as if it had never kicked. Such a task is `Unseen` until its next kick: if
it falls silent then, it is never noticed. That concerns the first kick of a task that runs at
tick 0, one kick or alert at every wrap-around, and the logger, which never kicks at all. It is in
the list of findings, because the header of `watchdog.c` makes no such exception.

## 5. `LogService`: buffer, queue, mutex, stdout

`buf` is the static buffer of `log_event`, as two halves, each the message that was last
written there: enough to see a mixed or a wrong message. `queue` holds copies. `mutex` is
`xPrintMutex`, with FreeRTOS's priority inheritance (`EffectivePriority`) and the 100 ms wait of
`write_msg` (`WaitTimesOut`, at any time). `stdio` is the lock the C library takes in
`printf`; a task that waits for it is, for the FreeRTOS kernel of the POSIX port, still
running: it keeps its priority and holds up every lower one.

| Run | Shows |
|---|---|
| `log_service` | watchdog's messages are whole (`TopWriterWhole`), a writer's messages do not overtake one another (`NeverOutOfOrder`), the simulator finds the mutex free (`StatusLineNeverWaits`), only the mutex's holder gets on while the logger waits for it (`NoPriorityInversion`), and the queue becomes empty unless logger or watchdog hang on stdout (`QueueDrains`); 221,166 states |
| `log_thread_safe` | **fails** `ThreadSafe`: a preempted `log_event` sends another message than its own |
| `log_incomplete` | **fails** `LogIsComplete`: a task preempted in a `printf` outside the mutex stops the logger for ever |

`NeverOutOfOrder` needs a history variable, `heard`: the messages of which the logger has
received a half. A task that is preempted between its format and its send sends whatever the
buffer holds when it goes on, so a message can be mixed with another, or sent a second time by
the wrong task long after the first; yet nothing that is in the queue is older than what the
logger has heard of the same writer. This is stated for writers that share their priority with
no other writer (`SoleWriters`). The three tasks that call `log_event` do not; tasks that
share a time slice could send each other's halves in any order.

`NoPriorityInversion` does not say that the logger waits for one write only. If the simulator takes
the mutex while a preempted monitor holds stdout, the inherited priority lets the simulator
wait for stdout before the monitor: neither gets on, the logger's 100 ms expire and its message is
dropped. `QueueDrains` needs this bound on the wait: without it (`WaitsForever`) the logger
would never come back. Nor can the mutex help a task of the logger's priority or more that finds
stdout locked by a task it has preempted (`StdoutHangs`). For the logger that is `log_incomplete`; the watchdog
hangs in the same way when it prints after a kill (`watchdog.c:162`, `task_scheduler.c:118`), and then the
logger takes nothing from the queue although it waits for nothing.

Instance: watchdog, logger, recovery manager, one monitor and the simulator with their
priorities. Of these all but the logger print outside the mutex: the monitor stands for monitors and
responders, the watchdog prints when it has killed a responder, and watchdog and recovery
manager when they start. In `log_incomplete` only monitor and simulator do, which is enough for its
counterexample and leaves the logger no other reason to hang. A queue of two; two messages per writer (`MaxMessages`), so that the queue
overflows and a message meets one of another writer and one of its own. Deadlock is not
checked in the two runs with `printf` outside the mutex, where the system really stops.
Fairness is strong for steps that have begun, as in section 3, and weak for the end of a wait;
nobody has to begin anything.

## 6. `Thresholds`, `SensorSimulator`, `Scenario`: the monitor in time

`Thresholds` has each comparison of a signal with a limit as one operator per place of the
code: `Spawns` (monitors), `Recovered` (responders), `StatusClass` (status line), `ExportClass`
(telemetry export), with what the getters do in between: `Truncated` drops the fraction of a
float, `HeapPct` is an integer percentage.

`SensorSimulator` is `vSimulatorTask` with `sim_tick` taken apart where a preemption matters:
`SimRelease`, `TimeLine`, `SampleSignals`, `SetBlackout`, `ReadClock`, `StoreGap`, `Leak` (`DoLeak`,
`FreeLeaks`, `KeepLeaks`), `SampleLoad`, `Report`; the ground station (`Ground`) and the clock (`Tick`)
fall between any two. Time is counted in steps of 100 ms, which divide every period of the
system. Noise is a choice among the values that a limit can tell apart, within what the
Box-Muller transform can return for 31-bit uniform draws (6.56 standard deviations: 9.9 degrees,
13.2 %). The heap is the allocator's value where the memory monitor and its responder read it;
the sample `g_sim.heap_free_bytes` that status line and export show is left out, since no
property is about what they show of it.

`Scenario` adds `MonitorPass`, `Poll` (a responder), `WatchdogPass` over the responders'
stamps, the announcement of the thermal responder (`ThermalAlert`, part of the simulator's
loop) and the heap, which responders and leaks take from. Every task but the simulator runs
from delay to delay at once, a higher priority first.

| Run | Shows |
|---|---|
| `scenario` | 110 s of faults and 25 s of recovery with the values of `config.h`; 578,655 states |

* `PhasesInOrder`, `DashboardPhaseAgrees`: the time line is the announced one, and what the bridge
  infers from the uptime of a status line is the simulator's phase.
* `LeaksBounded`: at most 20 leaks of the 64 the table holds, all returned.
* `NoAlarmBeforeBlackout`: with a working link the gap stays within a heartbeat's period, with one
  exception: a heartbeat between `ReadClock` and `StoreGap` makes the unsigned difference wrap
  around (`Wrapped`).
* `ServedInTime`, `EndsInTime`: a critical signal has a responder after one period of its monitor, also
  after a kill by the watchdog; a responder is gone one poll after its signal has recovered.
* `RespondersFitTheScenario`: which responders run in which phase of the code's scenario; a wrapped gap
  may start the comm responder outside of it.
* `EachAnnouncedOnce`: each thermal responder is announced once, and one or two of them in the spike.

Bounds. `Horizon` is 270 calls, 135 s: all phases and 25 s of the last. `MaxLate` is 3 steps:
the simulator may be held up by 300 ms of its 500 ms between any two parts, enough for a heartbeat
and for the passes of every other task to fall inside. `WRAP` (2000 steps) is larger than the
run, so that only the difference of two tick counts wraps around and not the clock; the real
one wraps after 49 days. Deadlock is not checked: the run ends with the horizon.

What the scenario shows about the documentation. The first two are findings of the run, whose
properties state what the code does:

* the battery falls below 3300 mV only when the memory phase has begun, and the free heap never
  falls below 20 %, so the responders that `PHASE_RESPONDER_MAP` (`dashboard/serve.py:78`) and the
  table of the README show for the battery and the memory phase do not run in them
  (`CalledForIn`); nor do "all faults" come together in COMBINED;
* `main.c:52` says the alert comes "once per thermal event"; it comes once per created responder,
  twice when the watchdog kills the first after ten seconds;
* a wrapped gap starts a comm responder and an alarm in phases without a comm fault;
* the comment "330 in mV units" (`responders.c:100`) is not the limit that is compared, 3300;
* `telemetry_export.c` cannot return WARNING: its two limits are equal (`ExportNeverWarns`).

## 7. `DashboardBridge`: from the log to the browser

`path` is the inode that `logs/system.log` names, `file` the contents of every inode: `Start` empties
the file or makes a new one (`fopen` with `"w"`), `Clean` (`make clean`) removes the name, a running
monitor and the bridge keep what they have open. A status line takes two cells of the file and
another line one, so that a position which is beyond a file that has been emptied falls into
the middle of a line when the file grows again. `TailOpen`, `TailRead`, `TailAppend`, `TailApply` are
the steps of `tail_log` between which a request may come; `Snapshot`, `AddEvents` and `Send` are
those of a request, in as many threads as there are `Handlers`.

| Run | Shows |
|---|---|
| `bridge` | two requests, two starts of the monitor, three lines: `EventsCoverState` (an answer's state is not ahead of its events, although these are copied without the lock), `RespondersMatchPhase`, `NoLineSkipped`, `TailCatchesUp`; 1.5 million states |
| `bridge_recreated` | **fails** `ReopensRecreatedLog`: "Re-opens if file is rotated/recreated" (`serve.py`) |

Bounds: a ring of two events and an answer with one let the ring overflow; two uptimes give two
phases with different responders; two starts are enough for a file that is emptied while it is
read and for one that is made anew. Fairness: `WF` of the tailing thread, which sleeps for at most
0.1 s and waits for a lock that is held for a copy. `NoLineSkipped` and `TailCatchesUp` are about the
first start only: after a restart the position is stale, and lines are skipped or cut in half.
The branch of `parse_line` for "[SIM] Phase" is left out: that text goes to stdout and never
to the log. So is the `except` branch of `tail_log` (`serve.py:250`), which opens the log again and
reads it from the start: a read of an open file on a local disk, decoded with replacement of bad
bytes, does not raise, and an `open` that finds the name gone only waits and tries again. Nothing stops the environment's end of the model, but lines and starts are bounded, so
deadlock is not checked.

## 8. Proofs

`ResponderLifecycleProofs` proves for any monitors, signals, checks, scan order and number of
blocks admitted by `ConstantAssumption`: `TypeCorrect`; `Invariance` of `IInv`; `OneResponder`,
`NoOrphans`, `MonitorsReachable` and `FreshDecisions`, which follow from it; `CriticalEventsAreTaken`; and
`Refinement`, that the tasks implement `ResponderService`.

`AtMostOneResponder` is not inductive: that a monitor about to create a responder creates the
first one needs that it saw the handle null and that nothing has changed it since. `IInv` adds what a
monitor relies on between two steps (`MonitorPhase`): its helper fits its reading, the
handle is still null, the responder it is to create or has just deleted does not exist. This in turn
needs that a responder without a handle is at its exit (`NoOrphanResponder`), hence ready and
of higher priority than the monitor, and that a reading does not age (`SnapshotFresh`).
The watchdog's steps are harmless because it cannot be preempted. One lemma per group
of actions and conjunct shows that steps preserve `IInv`.

`LogServiceProofs` proves for any tasks, writers, printers and priorities with the simulator
below the logger: `TypeCorrect`, `Invariance` of `IInv`, and from it `WatchdogMessagesWhole`,
`NoStatusLineDropped`, `InversionBounded` and `MessagesKeepTheirOrder`. The key lemma is `Inheritance`: only the logger
ever waits, and only for the simulator; so every other task has its base priority, and
the simulator, when waited for, the logger's. From that a writer of lower priority cannot act
while a task above it is in `log_event` (`LowerWriterWaits`, `TopWriterAlone`).
`MessagesKeepTheirOrder` has an invariant of its own, `OrderInv`. The order of what was received and
queued is inductive only with that of the buffer and of the calls (`InOrder` in three parts,
`QueueInOrder`, `BufferInOrder`, `CallsInOrder`). Its only hard case is a send of a
buffer whose halves are of two messages of one writer. It does not happen (`HalvesOfOthers`): the writer is
between the halves, so a task below it cannot run, and a task above it that is about to send has
overwritten both (`LowerOverwritten`).

`WatchdogTimersProofs` proves for every width of the clock, any period, timeout and time to live
that leave room below the wrap-around (`TimerAssumption`), any tasks and any list of responders,
duplicates included: `TypeCorrect`, `KillsInTime`, `NoticesSilence` (of every kick and alert that did not read
clock 0), `AlertsAreTrue`, `KillsAreDue`.
`Elapsed` is opened in three lemmas only: its value, that a tick adds one unless it wraps
around, and how two readings of the clock relate (`ElapsedBetween`). `IInv` says how old a
stamp can be at each point of a pass, relative to the ticks since the last release; what
has to be excluded is a stamp so old that it looks new, and it is, because the pass that finds
it old replaces it. `UnstampedInv` is the case that a tester would not think of: a responder met
at clock 0 has no stamp although it was seen, and gets one a period later.

`ThresholdsProofs` proves for all integers that spawn and recovery conditions are complements
(`LimitsComplement`), that what starts a responder is CRIT and CRITICAL (`SpawnedIsCrit`,
`CritIsCritical`), and what truncation can hide (`TruncationHidesLessThanAUnit`).

`SensorSimulatorProofs` proves the simulator's properties for every lateness below the period, every
horizon and every `WRAP` beyond it. `SimInv` ties clock, counter of `sim_tick` and counter of
`vSimulatorTask` together (`ClockInv`, `TimeLineInv`, `ReportInv`): the phase is a function of the counter,
hence in order, and the last status line is at most one second old. `LeakInv` counts leaks by
their distance of two seconds; `LinkInv` bounds the age of heartbeat and clock reading.
`ScenarioProofs` extends it with `ServiceInv`: a signal has waited at most since the last
release of its monitor, because signals move only while nobody is due, monitor and responder
read complementary conditions, and the heap is normal with all responders and leaks in place
(`HeapIsNormal`). From it follow `SignalsAreServed` and `RespondersEnd`, for any values of noise and load.

`DashboardBridgeProofs` proves `AnswersAreCovered` and `AnswersAreConsistent` for any number of
threads, lines and starts. `IInv` says that a file holds ascending line numbers (`FileInv`) and what
is unread is not older than what was read (`TailInv`), also when the file has been emptied
below the position.

`LinesAreAppliedInOrder`, that the bridge skips no line, rests on an invariant about the first
start only (`OneRunInv`): the file is the log spelled out in cells, each the successor of the one before
(`WholeFile`), and the position is at the start of the first line that was not taken
(`AtLineStart`). That is what a second start destroys: it empties the file under the position.

`ScenarioStoryProofs` proves the two properties that rest on the numbers of the whole scenario:
`RespondersFit` and `AnnouncedOnce`, again for every lateness below the period and every length of
the run. The signals come from `SignalInvHolds` (`SensorSimulatorProofs`), which bounds each signal by the call of
`sim_tick` it was sampled in, whatever the noise (`TemperatureInv`, `BatteryInv`, `LoadInv`) and
says when the link is back (`LinkBackInv`). `StoryInv` adds what runs when (`ResponderInv`), that
monitor and watchdog are due only when `sim_tick` is at rest (`ScheduleInv`), and the life of
the thermal responder as five chapters (`Quiet`, `First`, `Between`, `Second`, `Over`). It is
created at 22 or at 24 seconds, depending on the noise; only in the first case the watchdog kills it,
at 33 seconds, and the monitor creates another at 34. In the second between the two the
simulator's loop comes round at least once and takes the flag back, so that the second is announced
too; and it is announced before the spike is over, because one more call of `sim_tick` sees it.

Every invariant of a theorem above was first checked by TLC on the instance of its run. All
safety properties of the passing runs are theorems. Only model-checked are the liveness properties
(`ResponderStops`, `CriticalIsServed`, `QueueDrains`, `TailCatchesUp`), which are out of the prover's reach.

## 9. Mutants

Each property of a passing run is broken by at least one change of the modelled code, kept beside
the definition it changes: priorities swapped (`RespondersLikeSimulator`, `SimulatorLikeMonitors`,
`RecoveryBelowMonitors`), a test dropped (`SpawnUntested`, `RestampAlways`), a reset forgotten
(`KillKeepsStamp`, `NeverGives`, `BlackoutLatched`, `ThermalAlertLatched`, `LeakUntimed`), a comparison
off by one (`OnePastLast`, `TimedOutEarly`, `RecoveredStrictly`, `LastOfOne`), arithmetic
that does not wrap or in the wrong order (`WideSum`, `ClampedElapsed`, `StoreGapSwapped`), another unit
(`SpawnsAt330`, `PollPeriodInMs`), a stale value (`TimeLineLate`), the wrong end of a queue (`SendFront`), a missing case (`PhaseAtNoBlackout`,
`AppliedUnmapped`, `TailAppendEvents`, `TailOpenAtEnd`), no inheritance (`BasePriority`), no bound on a
wait (`WaitsForever`).

## 10. Not modelled

* The browser page (`dashboard/index.html`): it polls and draws, or plays a demonstration.
* Radiation, which is simulated and read by nobody; the physics behind the signals beyond ramps, drains and bounds of noise.
* The telemetry export beyond its classification: it is not in the Makefile, names handles that
  nothing defines and is never called, so there is no state it acts in.
* The text of messages and their parsing by regular expressions: a line is a type and a payload.
* Stack high-water warnings and the stack-overflow hook: no model here has stacks.
* What the kernel does with a freed control block beyond the answers of `AliveReadings`, and the
  process after it has deleted a task twice.
* The placeholders, which are comments; the Makefile beyond `clean`; kernel options beyond
  priorities, preemption, time slicing and mutexes.
* The order in which `main` creates the tasks: none runs before the scheduler starts, and every
  model begins there.
