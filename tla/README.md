# Verification of the Beryl 7 AI agent

TLA+ models, TLC runs and TLAPS proofs for the Go agent under `src/go-agent`:
a daemon on an OpenWrt router that watches the network, picks a healing action
when something is wrong, and must not make things worse. The models are
translated from the source; documents and comments are used only where a run
shows that the code does something else.

    tlc -config X.cfg M      model-checks module M (runs are listed below)
    tlapm M.tla              checks the proofs of module M

## 1. Inventory

The agent is one process. `cmd/main.go` starts a main goroutine (a `select`
over tickers and the restart signal), an HTTP server, a Telegram listener, a
signal handler and a twelve-hour flush goroutine. They share the store, the
executor, the AI client, the watchdog and a few files. procd respawns the
process when it ends.

| Component | State | Operations | Who calls it | What makes it hard | Right when |
|---|---|---|---|---|---|
| Watchdog (`watchdog/watchdog.go`) | safe mode, count of checks, suspended, checkpoint file | New, Suspend, Resume, RecordHealthCheckSuccess, saves, ExecuteRollback | main loop, restart | the checkpoint file is also written by `saveUCICheckpoint` (another format, not atomic); save errors are ignored; crash at any point | safe mode survives the process and ends only when earned |
| Healing loop (`cmd/main.go` 685-1172) | anomaly in treatment, cooldowns, pending file | tick, choose, gate, checkpoint, execute, queue, roll back | tickers | the approval and reload handlers, chaos endpoint and Telegram act beside it; crash between any two steps | no healing in safe mode, gated changes recoverable |
| Approval (`cmd/main.go` 1193-1206, 1784-1881) | single-slot pending file | queue, approve, expire | loop and HTTP handler | overwrite and removal by name; the error of the removal is ignored; crash between execution and removal | an approved proposal runs once, unless its file stays |
| Skill store files (`skillstore/store.go`) | RAM database, flash copy, .tmp, .bak, marker, latch | NewHybrid, OpenAndInit, BackupDatabase, FlushToPersistent, Close | all goroutines | crash, power loss before unsynced writes reach the disk, torn copies, corruption | only a loss of power tears the flash copy, flushed learning is kept, a shutdown ends |
| Write queue (`orchestrator/writer_queue.go`) | channel, stopped, worker | Enqueue, Stop, worker | orchestrator | send against close, full buffer, panicking tasks, concurrent Stop | nothing accepted is lost, no send on a closed channel |
| Main loop besides healing (`cmd/main.go` 765-951) | flag of the boost, counter of low ticks, traffic classes | boost, revert, pace, accelerate, maintain; `/boost`, `/health`, `/api/approve`, `/api/chaos` beside it | tickers, handlers | the flag, the executor and the configuration are shared without a lock; reverts fail and are tried again; the flag is lost with the process | the flag tells the truth, a boost ends when earned and does end, a dry run stays one |
| Executor (`executor/executor.go`) | staged and committed UCI settings | ExecuteAction: guard, `uci set`, `uci commit`, guard, `wifi reload` | loop, handlers | no lock; changes staged by one action are committed by another; guards that fail open | no station is disconnected against what the guard saw |
| Event bus (`orchestrator/event_bus.go`) | subscribers, ring | Subscribe, ClearSubscribers, Publish, GetRecentEvents | orchestrator | one goroutine per delivery, no order | each delivery once; the ring holds the newest |
| Orchestrator (`orchestrator/orchestrator.go`) | state, instances on a bus | handlers, Stop | bus | handlers of two steps, out of order, after Stop | serial events drive the state as written |
| AI client (`ai/ai_client.go`, `ai/circuit_breaker.go`) | budget, tokens, breaker | AnalyzeAnomaly | loop and Telegram | locks released around the call, late reports, half-open probes, day reset | no leak through an open breaker, and it recovers |
| Skill learning (`skillstore/store.go` 326-429, 583-617, 891-959; `cmd/main.go` 976-1168, 1914-2015) | rows of skills, q_table, signatures | GetSkill, GetBestSkillForAnomaly, Recommend..., SaveOrUpdateSkill, UpdateQValue | loop, verification goroutines, chaos endpoint | a verdict comes 3 s after the action from a stale copy of the skill; verifications overlap, two of one anomaly too; two tables are written one after the other, and errors of either statement are ignored; verdicts after Close; the AI's confidence is not bounded | no reward that was written is lost, the tables differ by the failed and cut-off statements only, and only a confirmed skill may change the network without a model's consent |
| Telegram (`notifier/telegram.go`, `cmd/main.go` 468-629) | offset, batch, cooldowns | getUpdates, ignore, refuse, execute, reply | operator through the bot API | offset in memory, lost answers, crash, panic or reboot before the confirmation | no command is lost, one is repeated only after a crash |
| Telemetry history (`cmd/telemetry_maintenance.go`, `store.go` 960-1077) | rows, latch | record, prune, alert | loop | pruning before the look at the history; asynchronous latch | the alert comes when fourteen days are there |
| Configuration and intents (`config/*.go`) | cfgAtomic, intents | load, resolve, reload | loop, HTTP | windows over midnight, overlaps; flag against file; copies that keep the old configuration | one intent decides, every threshold is positive, DRY_RUN stays as asked |
| Telemetry collector, log parser (`telemetry/telemetry.go`, `parser/parser.go`) | counters, running mean and variance, peaks | CollectMetrics, UpdateEWMALatency, CalculateAdaptiveSQMRates, ParseLine | loop, `/health` | unsigned counters, a score that contains its own sample, a parser whose report is logged | an anomaly is found when there is one |
| HTTP API: rate limits, roles (`cmd/main.go`) | counters per address | handlers | clients | window reset | not modelled yet |
| Logger (`logger/logger.go`), PID lock, other start-up checks | log file, PID file | rotate, lock, validate | start | check-then-write of the PID file | not modelled yet |
| Python agent (`src/agent`) | - | - | - | deprecated, superseded by the Go agent | not modelled |
| Tools, scripts, dashboards, deployment | - | - | - | - | not modelled |

`PROJECT.json` lists the hazards of this code at their lines, with the
properties that would catch each of them.

## 2. Modules

**Watchdog.** `safeModeActive`, `successfulChecks`, `suspended` are the fields
of the struct. `checkpoint` is the file, of kind `absent`, `json` (written by
the watchdog, atomically), `uci` (a complete export) or `torn` (an export cut
short); its other fields keep the last value of each format. `config` is the
committed UCI configuration, in two parts: the three settings that the
watchdog's snapshot lists, and the rest. `ExportBegin`/`ExportEnd` are
`saveUCICheckpoint`, `RollbackRestore`/`RollbackFinish` are `ExecuteRollback`,
cut where the code reloads services and sleeps: the process may end there.
`uci export` is read while others commit, so it may mix two configurations.
Every JSON save may fail, because the code ignores the error. Two history
variables: `owed` (health checks that must still be recorded) and `saveLost`.

**HealingLoop** extends Watchdog and conjoins its actions with those of the
loop. `loop` is the program counter of the main goroutine, `handler` that of the
approval handler (one at a time: `approveMutex`), `pending` the file. The choice
of an action (skill, AI answer, gated answer, fallback) is nondeterministic
within the guards of the code: which path exists for an offline WAN, which
actions are high-risk, where a checkpoint is taken. Wi-Fi tuning commits
settings outside the three. A tick in safe mode takes two steps (`SafeModeTick`,
`CountTick`), as `IsSafeMode` and `RecordHealthCheckSuccess` lock separately: a
reload may suspend the watchdog in between, and the check counts all the same.
`ApproveRemove` may leave the file where it is; `unremoved` is the history of
the executions whose proposal stayed. `Restart`, `Crash` and `Start` end and
begin the process; `ForeignCommit` is anybody else who commits a configuration.

**MCHealing** declares the symmetry of the settings outside the three;
**MCHealingLoop** adds a history variable for the statement of the documents
that the loop does not meet.

**DBWriterQueue** is at the grain of the RWMutex and the channel: a producer
holds the read lock from `EnqueueCheck` to `EnqueueSend`; no new reader enters
while a writer waits. **WriteLog** is the abstract specification: accepted
writes are executed in order, none is lost, the closer goes on when all are
done. `ImplementsWriteLog` maps the backlog to the running task followed by the
buffered ones.

**EventBus** has the operations of the bus, **Orchestrator** extends it with the
state machine: an instance subscribes to all types, `PublishEvent` spawns one
delivery per subscriber, and the handler of a verdict takes two steps (reward,
transition). The reward needs a store and an event that names state and action:
`stores` are the instances that have one, `named` the events that do, and
`updates` counts the calls of `UpdateQValue` per event. Two instances may follow
one another on one bus; **MCOrchestrator** declares that they are interchangeable. `GetRecentEvents`
is an operator that no action uses: `Newest` says what it must return.

**HybridStore** has the four files, the marker and the process. A database is
the set of updates it holds and its latch; `main` is the main file without its
write-ahead log, `full` what readers see. Flush and backup hold the store's
mutex (`lock`) over several steps and may fail or be cut short at each;
a backup does not ask whether the store is closed, and may begin after `Close`.
A flush syncs neither its temporary file nor the rename: `durable` is what a
loss of power may leave of the flash copy (the old one, the new one, a torn one
or none) until `WriteBack`, the system's own, has made the last one durable. Its
history flag `flushCut` says that power was lost within this time. A start first
runs `PostUpgradeValidation`, which removes a damaged flash copy.

**CloudAI** has one program counter per caller: charge, ask the breaker, take a
token, up to three requests, report. `timedOut` stands for the clock of the
breaker, `dayOver` for that of the budget.

**TelegramListener** has the listener's loop, the callback of `cmd/main.go` cut
down to what a kind of command does (reads the configuration, reboots, falls
under a cooldown), and the bot API's queue, which forgets what an offset
confirms. A process may end at every step; the listener starts before the
configuration is stored, and a chat executed then panics.

**SkillLearning** follows an anomaly from the recommendation of the Q-table
through cache, cloud or offline store to the executed action, and the verdict
on it into the two tables. `skills` and `q` are the tables, `job` holds the
verifications under way: `Verifications` of the loop, of any anomalies (a
cooldown starts before the AI is asked, and may be over before the verdict is
written), and one per overlapping chaos injection. Between its two statements
(`SaveOrUpdateSkill`, `UpdateQValue`) anything may happen, and each may fail, in
an open store too, without anybody noticing; queries of an open store are taken
to be answered. The AI's confidence is any number. A failed command is recorded by the main
loop itself, which waits (`Busy`). Confidences and Q-values are in thousandths,
rounded down, where the code has floats; the comparisons the code makes are at
distances of hundredths. History variables keep the verdicts written to a row,
the rewards written to a pair, the number of verdicts that missed the first
table (`unsaved`) or the second (`unlearned`), and the rows that began with a
confidence above 1 (`beyond`).
**MCSkillLearning** gives the thresholds, default actions and seeds of the code.

**Radio** has the executor's actions that write the wireless configuration,
cut into their commands: guard, `uci set`, `uci commit`, second guard,
`wifi reload`. `staged` and `committed` are the channel width (the one setting
that actions disagree about) in UCI's staging directory and in the file, `air`
is who would lose the connection, `job` holds for each goroutine the action it
executes and how far it is. The loop and the handlers run theirs side by side;
a command may fail, a guard may get no answer, and stations come and go between
any two commands. `sure` is a history flag of a job: nobody else has staged a
width since its own `set`, or nobody has come since its look at the air.

**Tick** extends Radio with the tick of the main loop besides healing: the
width that follows the traffic, pacing, acceleration, maintenance, and any
healing action or rollback as HealingLoop leaves it; with the requests that run
actions meanwhile; and with DRY_RUN through flag, file, reload and restart.
`tick` is what the loop has read when the tick began and uses to its end.
`asleep` is the environment: no traffic, no stations, no requests. **MCTick**
also extends Measures, so that TLC evaluates its assumption.

**Intents**, **Measures** and **StoreQueries** are pure operators, without
variables: what an intents file makes of the thresholds; what the loop computes
from a sample (status, rates, classes, score, shaper rates, log lines with their
places in the log, the cut of the sample and the limit of lines, the anomaly); and what the store computes from its tables besides learning
(distance of signatures and the nearest, running means, what the daily
maintenance deletes, when the history is ready). They say what the functions
return, and TickProofs proves facts about them for every input; no run
enumerates them, but that Tick's run evaluates their assumption. Scores and
distances, which the code computes with roots of floats, are compared as
squares of integers.

**SafeHealing** is the abstract specification of safe mode and healing, without
files, counts or goroutines: treatments begin outside safe mode, safe mode costs
the whole number of checks and ends by checks alone, and an agent that dies
owing checks comes back in it. HealingLoop states the refinement mapping
(`ImplementsSafeHealing`); what is owed is read from the count in memory.

**HealingLoopProofs** (with the watchdog), **DBWriterQueueProofs,
CloudAIProofs, TelegramListenerProofs, OrchestratorProofs** (with the bus),
**HybridStoreProofs, SkillLearningProofs** and **TickProofs** (with the pure
operators) hold the theorems. Definitions
commented "seeded fault" are plausible errors in the code; each must break the
property that `PROJECT.json` pairs it with.

## 3. Runs

| Run | Checks | Bounds, and why they are enough |
|---|---|---|
| `healing` | types of watchdog and loop; `SafeModeDurable`, `HealingIsEarned`, `HealsOnlyWhenAllowed`, `GatedChangeIsRecoverable`, `ApprovedOnce` | two anomalies (an offline WAN hides the other), a low- and a high-risk action; two settings outside the watchdog's snapshot, interchangeable (`OtherSymmetry`: no definition names one); one proposal that may be executed twice, when its file could not be removed; two exit checks instead of five, so that a partial count exists (the proofs cover every number of checks, proposals and executions) |
| `healing_liveness` | `SafeModeEnds`, `RestartServed` | one anomaly and one action; the interesting state is the interplay of suspension, safe mode and restart |
| `db_writer_queue` | types; `NoSendOnClosed`, `NothingLost`, `StopDrains`, `ImplementsWriteLog`, `StopReturns` | two producers and two callers of Stop; a buffer of two that four tasks can fill |
| `orchestrator` | types; `RewardedOncePerInstance`, `SerialEventsDriveState` | two instances, each with a store or without (`ListenerSymmetry`); three event types that reach three of the states, a verdict with its data or without; three events |
| `hybrid_store` | types; `FlashIsWhole`, `FlushedIsKept`, `MilestoneOnce`, `ShutdownEnds` | two updates and a threshold of one: a second process can reach the threshold again; flash that is written back late (`WritesLate`), files that may be damaged |
| `cloud_ai` | types; `TrippedIsOpen`, `SentIsPaid`, `BreakerRecovers` | two callers, as in the agent; a limit of four calls passes the three failures that trip the breaker; two tokens so that the limiter refuses |
| `telegram_listener` | types; `ConfirmedIsHandled`, `RepeatedOnlyWhenCut`, `UpdatesAreForgotten` | three updates of five kinds: an answer may hold several, and one may come while the others are handled; crashes are not bounded |
| `skill_learning` | types; `QLearnsEveryOutcome`, `HighRiskNeedsProof`, `LearnedTogether` | three executed actions: two verifications of the loop (`VerificationSymmetry`) and an injection that overlap, or three verdicts on one pair; an anomaly the loop can verify and one it cannot; answers of the AI below their threshold, at it and above 1; failing statements, close and restart at any point |
| `tick` | types; `RevertIsEarned`, `FlagFollowsRadio`, `DryRunAsAsked`, `ReloadSparesStations`, `EcoReturns` | the loop and one handler, so that two actions overlap; one kind of neighbour on the air; two low ticks instead of 60, so that a partial count exists (the proofs cover every number); one class of traffic, one healing action and one requested action, chosen so that every command occurs and the requested one writes the other width; DRY_RUN by the flag, which a file may confirm, contradict or leave open |
| `exit_checks_were_healthy`, `successes_are_counted`, `flash_never_forgets` | violated: see section 5 | |

Counters that only grow are bounded in the guards: proposals (`MaxProposals`),
executions (`MaxExecutions`), tasks (`MaxTasks`), events (`MaxEvents`), updates
(`MaxUpdates`, of the store and of the bot), executed actions (`MaxStarts`);
verifications of the loop that overlap are as many as `Verifications`. Two
counters of `tick` saturate: the low ticks one above `RestoreCycles`, those in a
row at it; beyond, the code and the properties tell no values apart. The breaker's
failure count is kept up to three, the only value
the code compares it with. Deadlock checking is off where the bounded system
really ends: the queue when it is stopped and all tasks were offered, the
orchestrator when all events were published and all instances are stopped.

**Fairness.** *HealingLoop*: every call of the main goroutine has a timeout, so
its next step is weakly fair; so is the goroutine that signals a restart, and
procd's respawn. The signal competes with the tickers in a `select`, which
picks at random among ready cases: strong fairness of `Restart`. *DBWriterQueue*:
the worker and callers of Stop that can go on do. *HybridStore*: a start, a
flush or a backup that began goes on; the store's mutex is fair to its waiters
(Go's mutexes hand over after 1 ms of starvation), so the shutdown's flush and
the close are strongly fair. *CloudAI*: a call goes on and five minutes pass;
nothing is assumed of the service, and that callers keep calling is a premise
of `BreakerRecovers` itself. *TelegramListener*: the goroutine goes on, procd
starts the agent, its main goroutine stores the configuration, and requests
that are repeated for ever are now and then answered in full (strong fairness);
that the process stays up in the end is a premise of `UpdatesAreForgotten`.
*Tick*: every goroutine goes on and every command has a time limit; procd
respawns the process; `select` picks at random among the tickers that are ready
(strong fairness of `StartTick`); and a boost or revert that the loop tries
again and again is written in the end (strong fairness of `WidthWritten`). That
the house falls asleep for good is a premise of `EcoReturns`. A crash is never
assumed, nor its absence.

## 4. Proofs

All theorems hold for every value of the constants that satisfies the named
assumptions of the modules. Two of these serve the proofs alone: the callers of
the AI client and the listeners on the bus are finite sets, of any size, as
goroutines and instances are; without it what they have sent or received could
not be counted. Every safety invariant and every action property that a passing
run checks is the property of a theorem.

*Watchdog.* The inductive invariant is `WDInv`: the types, `NoPartialCount` (a
JSON document stores a count of zero: the watchdog saves only when the count is
zero; without it a restart could continue an old count), `CountIsExact` (what
is owed is what the count says),
`HealingIsEarned` and `SafeModeDurable`. The last two need each other: what a
start may conclude from the file depends on what the last process owed.
Theorems `WatchdogTypes`, `SafeModeSurvivesRestart`, `SafeModeExitIsEarned`.

*HealingLoop.* `StepImplements` shows, action by action, that every step of the
loop is a step of the watchdog or leaves its state alone: `LoopImplementsWatchdog`
(LoopSpec => Spec), and the watchdog's guarantees hold of the whole system
(`SystemSafeMode`). `LoopInv` adds: `Treatment` (the job is what the program
counter says), `ExportMarked` (a checkpoint that was begun is an export),
`Tracked` (which proposals the file and the handler may hold, and that a
proposal in the file that a handler has taken is the one it executes; an
execution beyond those that left their file is not in the file any more), and
`Recoverable`. From it: `LoopTypes`, `HealingIsAllowed`,
`GatedChangesAreRecoverable`, `ProposalsRunOnce`. The second refinement,
`LoopImplementsSafeHealing`, maps the whole loop to SafeHealing: `CountIsExact`
makes the mapped debt what is owed, the guard of the tick lets a treatment begin
outside safe mode only, and `SafeModeDurable` excuses a start out of safe mode.
`SafeModeEndsByLastCheck`, an action property, is read off that refinement; it
does not say that the watchdog is not suspended at the last check, because a
reload may suspend it within the tick.
TLC checked `ImplementsSafeHealing` on the instance of the run `healing` before
it was proved; the run itself does not list it.

*DBWriterQueue.* `QInv`: types, `NoSendOnClosed`, `NothingLost`, and
`WorkerEnds` (the worker has returned only from a closed, empty channel).
Lemmas on `Backlog` say how each step changes it as a sequence. Theorems
`QueueTypes`, `SendsAreSafe`, `AcceptedIsExecuted`, `StopWaitsForDrain`, and the refinement
`QueueImplementsWriteLog`, for its safety part.
`DrainIsBounded` is the safety half of `StopReturns`, which itself needs
fairness: `Work`, the steps that the worker still has to make, is bounded by the
buffer and only falls once the channel is closed.

*CloudAI.* `TrippedIsOpen` is inductive with the types of the breaker
(`BreakerHolds`), `CloudTypeOK` by itself (`CloudTypes`). `SentIsPaid` is not
inductive: a call that is charged has sent nothing yet. `PaidInv` counts what
may follow with what was sent: `Pending` holds one element for every request
that a call under way may still make, and `sent` and its cardinality together
never exceed what was paid for; the daily reset moves the calls under way from
`spent` to `carried`. Theorem `SentPaid`, for any number of callers.

*TelegramListener.* `TLInv`: everything below the offset was dealt with but for
the update in execution, a batch has no holes, and an update that was executed
lies below the offset or was executed by a process that ended too early.
Theorems `ListenerTypes`, `NoCommandIsLost`, `CommandsRunOnce`.

*Orchestrator and EventBus.* `OrchInv`: the types, `PendingOK` (a delivery is of
an event that was published, and has a second half only for a verdict),
`RewardsOK` (of the audience of a verdict, those that have a store and are not
yet rewarded for an event that names its pair have a delivery that has not
begun, counted by cardinality) and `SerialOK` (with events
published one at a time, all pending deliveries are of the last one, and whoever
has none has made its transition). Theorems `OrchestratorTypes`,
`VerdictsAreRewardedOnce`, `SerialEventsDrive`. `RingOK` says what the ring
holds by the distance from its head, so that the wrapping of the index enters
only where the head moves and where the reader starts: `RecentEventsAreNewest`.
`SubscribedRun` (whoever is subscribed is running) gives
`StoppedHearNothingNew`. The last two are no properties of a run.

*HybridStore.* `StoreInv`: the types, `FlashIsWhole` (a torn flash copy is that
of a flush whose writes a loss of power caught, never of a process that died),
`PhaseOfRam` (what the RAM
database is in each phase), `TmpIsFresh` (the temporary file that a flush is
about to rename holds the RAM database), `EmptyStart`, `RamHoldsFlash` (what is
in flash is in whatever the process will open, unless a RAM database was
damaged) and `LatchIsStored`. Theorems `StoreTypes`, `FlashStaysWhole`,
`FlushesAreKept`, `MilestoneIsOnce`, and the action property
`UndamagedFlashGrows`: the conditions under which the promise that the run
`flash_never_forgets` refutes does hold, which are an undamaged RAM database and
a flash copy that has been written back. (That run takes every write to be
synced, to show that the promise fails without any loss of power.)

*SkillLearning.* `SkillInv` joins the types, `HighRiskNeedsProof` and
`BeyondFromAI` (rows are beyond 1 only if the AI gives such answers). Only
`SaveOrUpdateSkill` writes rows, and `SmoothedRange` shows that a failure leaves
at most 0.7 (0.8 after an injection) of a confidence up to 1, less than the 0.85
of a high-risk action; what began above 1 is in `beyond`. Where the AI keeps to
1, nothing is excepted: `OnlyTheAIExceedsOne`. `LearningTypes` shows on the way
that the clamp of Q-values in the SQL statement never acts. `FiveFailuresReject`
is about `Learned` alone, by five nested bounds (`Falls`).
`SeededIsNeverInterpolated` follows from the types: what `Learned` returns is
never the absence of a row. For `TablesAgree` each step changes verdicts,
rewards, failed and cut-off statements and half-recorded verdicts by amounts that
cancel. `OutcomesAreAveraged` speaks of a recursive function over a history,
about which nothing can be proved by induction here. The invariant
`QIsMovingAverage` therefore says that the partial values exist: a sequence that
begins with the seed, moves by one reward at each place and ends with the
Q-value (`AverageExtends` appends one more). That such a sequence is the
recursive function is `AverageIsTheLast`: there is no first place where the two
differ, by the well-foundedness of the naturals. Theorems `LearningTypes`,
`CacheNeedsProof`, `OnlyTheAIExceedsOne`, `TablesAgree`, `OutcomesAreAveraged`, `FiveFailuresReject`,
`SeededIsNeverInterpolated`.

*Tick.* The inductive invariant joins the types with `Resting` (an idle
goroutine has no job, and a process that is down has none at all), `Earned`
(the loop counts no more low ticks than there were in a row, none without the
flag, and only the loop takes the flag away: needed because skipped ticks and
`/boost` leave the counter alone), `Written` (a `sure`
action past its `set` has its width staged, and past its commit written), `Dry`
(a tick or request that was asked to spare the router has a job that sends no
command, because the configuration in use is the one last asked for), and
`ReloadSparesStations`. `Kinds` says once what any step may do to a job, so
that most of the proof is about four kinds of steps and not about twenty
actions. The action properties follow from the invariant and one lemma about
the steps that change the flag. Theorems `TickTypes`, `RevertEarned`,
`FlagFollows`, `DryRunKept`, `StationsSpared`, for any number of handlers,
neighbours, cycles and classes, and any sets of healing and requested actions.

*Intents, Measures, StoreQueries.* Facts about pure functions, for every input:
`WindowIsCyclic`, `FirstIntentWins` and `ThresholdsArePositive`;
`ScoreStaysBelowTwo` and `NoSpikeByDefault` (by arithmetic on the inequality of
squares); `ShaperFloorNeverActs`, `ShaperCoversTraffic`, `UploadWraps`,
`EchoIsDetected`, `CutHidesNewest` (both from the least line that matches, which
exists by the well-foundedness of the naturals); `OfflineIsNoWanDrop` (the latency alone is too far),
`MeanStaysBetween` and `ReadinessNeedsRetention`.

Only model-checked: all liveness (`SafeModeEnds`, `RestartServed`,
`StopReturns`, `ShutdownEnds`, `BreakerRecovers`, `UpdatesAreForgotten`,
`EcoReturns`, the liveness part of `ImplementsWriteLog`), which is out of the
prover's reach. Refuted by TLC, and so beyond proof: `ExitChecksWereHealthy`,
`FlashNeverForgets`, `SuccessesAreCounted`. No module declares a RECURSIVE operator.

## 5. Where the code and its documents disagree

Shown by runs that end in a violation:

- `exit_checks_were_healthy`: the loop counts every tick in safe mode as a
  healthy one (main.go:848), also when the WAN is down; watchdog.go:74 and
  CHANGELOG.md:12 speak of successful health checks.
- `successes_are_counted`: a verification gets a copy of the skill without its
  counts, and the copy's counts are written over those of the row
  (main.go:1024, 1996; store.go:414): `success_count` is 1 after any number of
  successes, while tests/chaos/live_chaos_test.py:169 asserts that it grows.
- `flash_never_forgets`: a process that dies while it restores the flash copy
  leaves a torn RAM database; the next start replaces it by an empty one, and
  the next flush overwrites the good flash copy (store.go:131, 172-224, 531).

Seen while modelling, and visible in the models, without a run of their own:

- The deliveries of `action_executed` and of its verdict may run in the other
  order, and the orchestrator's state stays VERIFYING (event_bus.go:112), which
  orchestrator.go:74 means to prevent.
- The file of an executed proposal stays when it cannot be removed, the error
  being ignored (main.go:1862), and is executed again by the next approval. A
  checkpoint that cannot be exported is only logged, and the action runs
  (main.go:1227).
- The tick that found safe mode on counts its check although a reload has
  suspended the watchdog meanwhile (main.go:848-849, watchdog.go:75), while a
  suspended watchdog is not in safe mode (watchdog.go:68).
- A flush renames a file that is not synced and does not sync the rename
  (store.go:546-553), while the upgrade marker is synced (main.go:661): a loss of
  power soon after a flush may leave a torn flash copy, the one before or none;
  main.go:366 promises permanence. The next start removes a torn copy and begins
  with nothing learned.
- `BackupDatabase` does not ask whether the store is closed (store.go:302).
- A new proposal overwrites the pending file, and the approval handler removes
  whatever it holds (main.go:1203, 1862), while docs/API.md:36 says that pending
  requests expire after ten minutes.
- An injection always starts from a confidence of 0.60 and writes it over what
  its row had learned (main.go:2000), and the answer of the AI replaces a learned
  confidence by its own (main.go:1139): the average that README.md:33 speaks of
  is only continued by hits of the local cache. The AI's confidence has a lower
  bound only (ai_client.go:334, main.go:1124): after an answer of 5.0 and a
  failure the row has 3.5, and runs from the cache again.
- The errors of both statements that record a verdict are ignored (main.go:1037,
  1038, 1055, 1060, 2002), so that a verdict may reach one table only; and two
  verifications of one anomaly may overlap, since the cooldown starts before the
  AI is asked (main.go:951).
- The loop's verification knows four anomalies; for BUFFERBLOAT_SPIKE and the
  repeater's it always says that the action failed (main.go:1016), though the
  injection's knows them (main.go:1390). Five such verdicts and the action is
  recommended no more (`FiveFailuresReject`).
- `ExecuteRollback` from a JSON checkpoint commits three hard-coded defaults,
  not the old configuration (watchdog.go:176 says 100% of it is restored).
- After a failed AI call the fallback action runs without a checkpoint
  (main.go:1149-1155), while docs/FAQ.md:18 promises a snapshot before any
  network change; and the failure of a high-risk action leads to no rollback
  (executor.go:58 says it does): the only such rollback is for an anomaly that
  this path never sees (main.go:1158).
- A chat command that waits at the bot when the agent starts may be executed
  before `cfgAtomic.Store` (main.go:713): the type assertion panics, the process
  ends, and the next one is given the same command. Likewise a `/reboot` whose
  answer takes longer than two seconds is not confirmed before the router goes
  down, and is executed again after the start; its cooldown is in memory
  (telegram.go:224). `RepeatedOnlyWhenCut` names exactly these cases.
- A second concurrent `Stop` of the write queue returns before it is drained
  (writer_queue.go:77-83), and handlers dispatched before `Orchestrator.Stop`
  run after it (orchestrator.go:179).
- What was learned since the last flush is lost with the power (main.go:368),
  while docs/benchmark.md:23 reports no data loss.
- The breaker opens after three failures, local rate-limit refusals included,
  and the cost limit of 3.0 USD cannot be reached within 1000 calls of 0.0001
  USD; docs/FAQ.md:30 says five failures and 1.00 USD.
- The latency score contains its own sample and never exceeds 2
  (`ScoreStaysBelowTwo`), so the default threshold of 2.5 (main.go:927) never
  finds a BUFFERBLOAT_SPIKE (`NoSpikeByDefault`), nor does the shaper's
  `zScore > 2.0`; docs and comments describe both as working.
- The shaper's floor never acts and no rate below 136 Mbps is ever set
  (`ShaperFloorNeverActs`), while the comment at telemetry.go:218 speaks of
  connections from 50 Mbps on. Sent bytes that went backwards, as when an
  interface is recreated, give an upload near 2^64 (`UploadWraps`, telemetry.go:164).
- procd sends the agent's output to the syslog (config.go:452) that the next
  tick reads, and the parser's warning quotes the line it has detected
  (parser.go:83): on a quiet log the warning is detected in its turn
  (`EchoIsDetected` says when) and acted on after each cooldown.
- The parser's limit of 4096 bytes, for a "max syslog line" (parser.go:51), is
  applied to the whole sample of fifteen lines (main.go:858), so that the newest
  lines of a verbose log are not looked at (`CutHidesNewest`).
- A router that lists no WAN interface counts as online, and a failed probe has
  a latency of zero (`WANStatus`, `Latency`); the signature seeded for WAN_DROP
  has one of 999 ms, so that no offline sample is ever similar to it
  (`OfflineIsNoWanDrop`). It does not matter: every anomaly the loop raises has
  a seeded row, and the similarity of store.go:925 is never asked
  (`SeededIsNeverInterpolated`), though README and comments advertise it.
- The Wi-Fi guard takes a station list that it cannot read for an empty one
  (executor.go:210), where telemetry.go:731 calls itself conservative. Boost and
  revert commit the width without a reload, so the radio keeps the old one
  while `/health` reports the new; tuning, restart and healing change the width
  or lose the flag without telling each other (`FlagFollowsRadio` speaks of
  changes of the flag, and holds for these). A rollback reloads without any
  guard (watchdog.go:229).
- A boost ends after sixty idle ticks, five minutes: docs/FAQ.md:51 says 60
  seconds, the answer to `/boost` ten (main.go:507).
- DRY_RUN promises "no network modifications" (main.go:293), but pacing,
  acceleration, maintenance, `/boost`, `/api/chaos` and the repeater's
  harmonisation at every tick (main.go:846) do not look at it. A file overrides
  the flag. A file that cannot be read gives the defaults, without the kill
  switch that it may have set (config.go:140).
- The AI may choose `block_device`, `set_wan_mac` and `ap_failover`
  (ai_client.go:248), which no caller can supply with an address: they always
  fail (`Rejected`).
- With TELEMETRY_RETENTION_DAYS below 14 the alert that README.md:142 promises
  comes only on a day whose prune fails (`ReadinessNeedsRetention`).

## 6. Plan

Done: Watchdog, HealingLoop with SafeHealing, DBWriterQueue with WriteLog, EventBus,
Orchestrator, HybridStore, CloudAI, TelegramListener, SkillLearning, Radio and
Tick, the operators of Intents, Measures and StoreQueries, and the proofs above.
The most important behaviour came first: safe mode, then what may change the
router, then the data, then what the decisions rest on. Left:

1. Proofs: more safety halves of liveness, like `DrainIsBounded` (measures that
   only fall), since fairness and ENABLED are out of reach; an abstract store
   that HybridStore implements.
2. Smaller ones: the per-address rate limiters, log rotation, the PID lock, the
   latch of the readiness alert.

A new module's run replaces one that a larger run subsumes, so that every run
still asks a question of its own.

## 7. Not modelled, and why

- Of the executor, all settings but the channel width: no two actions disagree
  about them, and nothing reads them back. Of the collector and the parser,
  reading files and command output, regular expressions and the masking of
  addresses: text processing. That the parser's limit of lines starts anew when
  a second turns within a sample; and the redaction of addresses in log
  messages, which is taken not to touch what the patterns match. Metrics that
  are only displayed.
- The harmonisation of repeater settings at every tick (main.go:846): it sets
  one option of the package `repeater`, which no action touches.
- Of the configuration, every setting but DRY_RUN and the thresholds; the
  encryption of secrets. Of the checks at start, all but `PostUpgradeValidation`'s
  removal of a damaged flash copy: they refuse to start and keep nothing. An
  intact copy is taken to pass its integrity check.
- Telemetry history: inserting and reading rows; calendar days with a change of
  the clock, where the model has days of 86,400 seconds.
- SkillLearning lets any known state be the nearest, which StoreQueries would
  compute, and does not prune: rows of a confidence below 0.05, or a thousand of
  them, do not exist in an instance of TLC's size.
- The wording of alerts and answers, authorisation, rate limits and the
  read-only endpoints of the HTTP API.
- Checksums and formats of files are abstracted to "loads or does not".
- The chaos endpoint and the effects of Telegram commands appear in HealingLoop
  as commits by others; Tick has them as requests.
- The Python agent is deprecated; tools, scripts and dashboards are not part of
  the running agent. The logger's rotation and the PID lock are left for later.
