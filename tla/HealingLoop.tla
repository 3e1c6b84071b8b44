------------------------------ MODULE HealingLoop ------------------------------
(***************************************************************************)
(* The self-healing loop of the agent (cmd/main.go) around the watchdog:   *)
(* telemetry ticks, the choice and gating of a healing action, the         *)
(* checkpoint taken before a high-risk action, the single-slot file of the *)
(* proposal that awaits an operator, the /api/approve handler that runs    *)
(* beside the loop, configuration reloads that restart the process, and    *)
(* the end and restart of the process at any point.                        *)
(*                                                                         *)
(* Processes: the main goroutine (`loop' is its program counter), one      *)
(* approval handler at a time (approveMutex; `handler'), and the world     *)
(* (WAN link, kill switch, clock, operators who change the configuration). *)
(* What is learned from the outcome of an action is in SkillLearning.      *)
(***************************************************************************)
EXTENDS Watchdog

CONSTANTS
  Anomalies,     (* anomaly types                                          *)
  WanDrop,       (* the one that an offline WAN raises                     *)
  Actions,       (* healing actions                                        *)
  HighRisk,      (* those whose risk threshold is at least 0.85            *)
  MaxProposals,  (* bound: proposals queued in one behaviour               *)
  MaxExecutions  (* bound: executions of one proposal                      *)

ASSUME LoopAssumption ==
  /\ WanDrop \in Anomalies
  /\ HighRisk \subseteq Actions
  /\ Actions # {}
  /\ MaxProposals \in Nat
  /\ MaxExecutions \in Nat

VARIABLES
  loop,         (* program counter of the main loop                        *)
  job,          (* anomaly in treatment, chosen action and path            *)
  cooling,      (* anomalies inside their cooldown window                  *)
  restarting,   (* a restart is "asked" for, or "signalled" in             *)
                (* restartSignalChan                                       *)
  pending,      (* /var/run/beryl7_pending_approval.json                   *)
  handler,      (* the approval handler that holds approveMutex            *)
  wanUp,        (* the WAN link                                            *)
  killSwitch,   (* config.IsKillSwitchActive                               *)
  proposed,     (* history: number of proposals queued so far              *)
  executions,   (* history: how often each proposal was executed           *)
  unremoved,    (* history: how often the file still held a proposal when  *)
                (* the handler that had executed it went on, or died       *)
  outdated      (* history: the last export could not begin, or another    *)
                (* process committed a configuration since it began        *)

procVars  == << loop, job, cooling, restarting, handler >>
worldVars == << wanUp, killSwitch >>
histVars  == << proposed, executions, unremoved, outdated >>
loopVars  == << wdVars, procVars, worldVars, histVars, pending >>

-------------------------------------------------------------------------------
(* Data.                                                                   *)

Proposals == 1 .. MaxProposals

\* "skill": confident local skill; "ai": answer of the AI client, or of the
\* skill store when offline; "gated": such an answer below its threshold;
\* "fallback": heuristic action after a failed AI call.
Paths == {"skill", "ai", "gated", "fallback"}

Jobs == [anomaly : Anomalies, action : Actions, path : Paths]

\* Between two ticks no anomaly is in treatment.
NoJob == [anomaly |-> WanDrop, action |-> CHOOSE act \in Actions : TRUE,
          path |-> "skill"]

NoPending == [kind |-> "none", id |-> 0, fresh |-> FALSE]
Pendings  == [kind : {"none", "torn", "full"}, id : 0 .. MaxProposals,
              fresh : BOOLEAN]

IdleHandler == [pc |-> "idle", id |-> 0]
Handlers    == [pc : {"idle", "approved", "executed"}, id : 0 .. MaxProposals]

LoopStates == {"select", "check", "decide", "export", "execute", "queue",
               "queueWrite", "rollback"}

\* An anomaly is in treatment.
Treating == loop \notin {"select", "check"}

\* Actions of the executor and the loop's own tuning commit settings outside
\* the three that the watchdog's snapshot lists (channel, bandwidth, queueing,
\* firewall, MAC), or none at all: memory purges, interface restarts and every
\* call refused by the idle-client guard.
Effects == {[config EXCEPT !.other = o] : o \in OtherValues}

-------------------------------------------------------------------------------
(* The main loop.                                                          *)

InLoop(from, to) == up /\ loop = from /\ loop' = to

\* A telemetry tick that finds safe mode on heals nothing ...
SafeModeTick ==
  /\ InLoop("select", "check")
  /\ IsSafeMode
  /\ UNCHANGED << wdVars, job, cooling, restarting, handler, worldVars,
                  histVars, pending >>

\* ... and then counts as a health check, whatever the metrics say.  Each of
\* the two calls takes the watchdog's lock for itself: a reload may suspend
\* the watchdog in between, which the second call does not look at.
CountTick ==
  /\ InLoop("check", "select")
  /\ RecordHealthCheckSuccess
  /\ UNCHANGED << job, cooling, restarting, handler, worldVars, histVars,
                  pending >>

\* A tick that only tunes (Wi-Fi bandwidth, latency, streaming): there is no
\* anomaly, or it is cooling down.
QuietTick ==
  /\ InLoop("select", "select")
  /\ ~IsSafeMode /\ ~killSwitch
  /\ wanUp \/ WanDrop \in cooling
  /\ \E c \in Effects : CommitConfig(c)
  /\ UNCHANGED << job, cooling, restarting, handler, worldVars, histVars,
                  pending >>

\* Seeded fault: the anomaly is treated whether or not safe mode is on.
AnomalyTickUnchecked(a) ==
  /\ InLoop("select", "decide")
  /\ ~killSwitch
  /\ a \notin cooling
  /\ wanUp \/ a = WanDrop
  /\ cooling' = cooling \cup {a}
  /\ job' = [job EXCEPT !.anomaly = a]
  /\ \E c \in Effects : CommitConfig(c)
  /\ UNCHANGED << restarting, handler, worldVars, histVars, pending >>

\* A tick that finds an anomaly outside its cooldown.  An offline WAN hides
\* every other anomaly; a line of the log may report a WAN drop that is over.
AnomalyTick(a) ==
  /\ InLoop("select", "decide")
  /\ ~IsSafeMode /\ ~killSwitch
  /\ a \notin cooling
  /\ wanUp \/ a = WanDrop
  /\ cooling' = cooling \cup {a}
  /\ job' = [job EXCEPT !.anomaly = a]
  /\ \E c \in Effects : CommitConfig(c)
  /\ UNCHANGED << restarting, handler, worldVars, histVars, pending >>

\* Seeded fault: no checkpoint before a high-risk action.
ChooseConfidentUnsaved(act, path) ==
  /\ loop' = "execute"
  /\ job' = [job EXCEPT !.action = act, !.path = path]

\* A local skill, or an answer that reaches the action's risk threshold,
\* is executed, after an export of the configuration when the risk is high.
ChooseConfident(act, path) ==
  /\ loop' = IF act \in HighRisk THEN "export" ELSE "execute"
  /\ job' = [job EXCEPT !.action = act, !.path = path]

\* An answer below its threshold is queued for the operator.
ChooseGated(act) ==
  /\ proposed < MaxProposals
  /\ loop' = "queue"
  /\ job' = [job EXCEPT !.action = act, !.path = "gated"]

\* When the AI call fails, the Q-table's action runs: no threshold is
\* consulted and no checkpoint is taken.
ChooseFallback(act) ==
  /\ loop' = "execute"
  /\ job' = [job EXCEPT !.action = act, !.path = "fallback"]

\* The choice ends.  The AI client is not called for an offline WAN; the
\* skill store answers then, or the default interface restart.
Decide(act) ==
  /\ up /\ loop = "decide"
  /\ \/ ChooseConfident(act, "skill")
     \/ ChooseConfident(act, "ai")
     \/ ChooseGated(act)
     \/ job.anomaly # WanDrop /\ ChooseFallback(act)
  /\ UNCHANGED << wdVars, cooling, restarting, handler, worldVars, histVars,
                  pending >>

\* saveUCICheckpoint opens and truncates the file ...
BeginCheckpoint ==
  /\ InLoop("export", "export")
  /\ ExportBegin
  /\ outdated' = FALSE
  /\ UNCHANGED << job, cooling, restarting, handler, worldVars, proposed,
                  executions, unremoved, pending >>

\* (if it cannot be opened the action is executed without a checkpoint)
NoCheckpoint ==
  /\ InLoop("export", "execute")
  /\ phase = "idle"
  /\ outdated' = TRUE
  /\ UNCHANGED << wdVars, job, cooling, restarting, handler, worldVars,
                  proposed, executions, unremoved, pending >>

\* ... and the loop goes on when the export has ended, well or not.
EndCheckpoint ==
  /\ InLoop("export", "execute")
  /\ ExportEnd
  /\ UNCHANGED << job, cooling, restarting, handler, worldVars, histVars,
                  pending >>

\* ExecuteAction returns.  Whether it succeeded or failed it may have
\* committed its settings.  A failure only leads to a rollback after a
\* fallback for an offline WAN.
ExecuteAction(ok) ==
  /\ up /\ loop = "execute"
  /\ loop' = IF ~ok /\ job.path = "fallback" /\ job.anomaly = WanDrop
             THEN "rollback" ELSE "select"
  /\ \E c \in Effects : CommitConfig(c)
  /\ job' = IF loop' = "select" THEN NoJob ELSE job
  /\ UNCHANGED << cooling, restarting, handler, worldVars, histVars,
                  pending >>

\* queuePendingApproval overwrites the file, which is first truncated ...
QueuePending ==
  /\ InLoop("queue", "queueWrite")
  /\ proposed' = proposed + 1
  /\ pending' = [NoPending EXCEPT !.kind = "torn"]
  /\ UNCHANGED << wdVars, job, cooling, restarting, handler, worldVars,
                  executions, unremoved, outdated >>

\* ... then written; an offline WAN or a high-risk action then triggers the
\* watchdog's rollback although nothing was executed.
QueueWritten ==
  /\ up /\ loop = "queueWrite"
  /\ pending' = [kind |-> "full", id |-> proposed, fresh |-> TRUE]
  /\ loop' = IF job.anomaly = WanDrop \/ job.action \in HighRisk
             THEN "rollback" ELSE "select"
  /\ job' = IF loop' = "select" THEN NoJob ELSE job
  /\ UNCHANGED << wdVars, cooling, restarting, handler, worldVars, histVars >>

\* Seeded fault: the loop does not wait for the rollback.
BeginRollbackAsync ==
  /\ InLoop("rollback", "select")
  /\ RollbackRestore
  /\ UNCHANGED << job, cooling, restarting, handler, worldVars, histVars,
                  pending >>

BeginRollback ==
  /\ InLoop("rollback", "rollback")
  /\ RollbackRestore
  /\ UNCHANGED << job, cooling, restarting, handler, worldVars, histVars,
                  pending >>

EndRollback ==
  /\ InLoop("rollback", "select")
  /\ RollbackFinish
  /\ job' = NoJob
  /\ UNCHANGED << cooling, restarting, handler, worldVars, histVars,
                  pending >>

-------------------------------------------------------------------------------
(* The approval handler.  It looks at neither safe mode nor kill switch.   *)

\* The file is read and parsed; a torn one is answered with an error.
ApproveRead ==
  /\ up /\ handler.pc = "idle"
  /\ pending.kind = "full" /\ pending.fresh
  /\ executions[pending.id] < MaxExecutions
  /\ handler' = [pc |-> "approved", id |-> pending.id]
  /\ UNCHANGED << wdVars, loop, job, cooling, restarting, worldVars, histVars,
                  pending >>

\* A proposal older than ten minutes is removed (or stays, and is refused
\* again) and not executed.
ApproveExpired ==
  /\ up /\ handler.pc = "idle"
  /\ pending.kind = "full" /\ ~pending.fresh
  /\ pending' = NoPending
  /\ UNCHANGED << wdVars, procVars, worldVars, histVars >>

ApproveExecute ==
  /\ up /\ handler.pc = "approved"
  /\ handler' = [handler EXCEPT !.pc = "executed"]
  /\ executions' = [executions EXCEPT ![handler.id] = @ + 1]
  /\ \E c \in Effects : CommitConfig(c)
  /\ outdated' = TRUE
  /\ UNCHANGED << loop, job, cooling, restarting, worldVars, proposed,
                  unremoved, pending >>

\* The executions that the file outlived: another proposal may have taken
\* its place.
StillInFile ==
  IF handler.pc = "executed" /\ pending'.kind = "full"
       /\ pending'.id = handler.id
  THEN [unremoved EXCEPT ![handler.id] = @ + 1] ELSE unremoved

\* Seeded fault: the executed proposal is not removed from the file.
ApproveKeep ==
  /\ up /\ handler.pc = "executed"
  /\ handler' = IdleHandler
  /\ UNCHANGED << wdVars, loop, job, cooling, restarting, worldVars, histVars,
                  pending >>

\* The file is removed by name, whatever it holds by now; when os.Remove
\* fails, its error is ignored.
ApproveRemove ==
  /\ up /\ handler.pc = "executed"
  /\ handler' = IdleHandler
  /\ pending' \in {NoPending, pending}
  /\ unremoved' = StillInFile
  /\ UNCHANGED << wdVars, loop, job, cooling, restarting, worldVars, proposed,
                  executions, outdated >>

-------------------------------------------------------------------------------
(* Restart, crash, and the world.                                          *)

\* Seeded fault: the watchdog is suspended, the restart signal is lost.
ReloadConfigLost ==
  /\ Suspend
  /\ UNCHANGED << loop, job, cooling, restarting, handler, worldVars, histVars,
                  pending >>

\* POST /api/config/reload with changed network settings, and
\* PerformGracefulProcessRestart: the watchdog is suspended at once ...
ReloadConfig ==
  /\ Suspend
  /\ restarting' = IF restarting = "no" THEN "asked" ELSE restarting
  /\ UNCHANGED << loop, job, cooling, handler, worldVars, histVars, pending >>

\* ... then the main loop is told, unless it has been told already.
SignalRestart ==
  /\ up /\ restarting = "asked"
  /\ restarting' = "signalled"
  /\ UNCHANGED << wdVars, loop, job, cooling, handler, worldVars, histVars,
                  pending >>

ProcessGone ==
  /\ loop' = "select"
  /\ job' = NoJob
  /\ cooling' = {}
  /\ restarting' = "no"
  /\ handler' = IdleHandler
  /\ unremoved' = StillInFile
  /\ UNCHANGED << proposed, executions, outdated, worldVars >>

\* Seeded fault: a restart waits for the end of safe mode.
RestartUnlessSafe ==
  /\ loop = "select" /\ restarting = "signalled" /\ ~safeModeActive
  /\ Exit
  /\ UNCHANGED pending
  /\ ProcessGone

\* The main loop takes the restart signal.
Restart ==
  /\ loop = "select" /\ restarting = "signalled"
  /\ Exit
  /\ UNCHANGED pending
  /\ ProcessGone

\* The process is killed, or the router reboots and loses /var/run.
Crash ==
  /\ Exit
  /\ pending' \in {pending, NoPending}
  /\ ProcessGone

\* procd starts the agent again.
Start ==
  /\ Boot
  /\ UNCHANGED << procVars, worldVars, histVars, pending >>

\* An operator, the Telegram listener, /api/chaos/inject or the six-hour
\* maintenance commits a configuration beside the treatment of an anomaly.
ForeignCommit(c) ==
  /\ CommitConfig(c)
  /\ outdated' = TRUE
  /\ UNCHANGED << procVars, worldVars, proposed, executions, unremoved,
                  pending >>

\* Time passes: a cooldown window closes, a proposal turns ten minutes old.
CooldownOver(a) ==
  /\ a \in cooling
  /\ cooling' = cooling \ {a}
  /\ UNCHANGED << wdVars, loop, job, restarting, handler, worldVars, histVars,
                  pending >>

ProposalAges ==
  /\ pending.kind = "full" /\ pending.fresh
  /\ pending' = [pending EXCEPT !.fresh = FALSE]
  /\ UNCHANGED << wdVars, procVars, worldVars, histVars >>

WorldChanges ==
  /\ \/ wanUp' = ~wanUp /\ UNCHANGED killSwitch
     \/ killSwitch' = ~killSwitch /\ UNCHANGED wanUp
  /\ UNCHANGED << wdVars, procVars, histVars, pending >>

-------------------------------------------------------------------------------

LoopInit ==
  /\ Init
  /\ loop = "select"
  /\ job = NoJob
  /\ cooling = {}
  /\ restarting = "no"
  /\ handler = IdleHandler
  /\ pending = NoPending
  /\ wanUp \in BOOLEAN
  /\ killSwitch = FALSE
  /\ proposed = 0
  /\ executions = [i \in Proposals |-> 0]
  /\ unremoved = [i \in Proposals |-> 0]
  /\ outdated = FALSE

LoopStep ==
  \/ SafeModeTick
  \/ CountTick
  \/ QuietTick
  \/ \E a \in Anomalies : AnomalyTick(a)
  \/ \E act \in Actions : Decide(act)
  \/ BeginCheckpoint
  \/ NoCheckpoint
  \/ EndCheckpoint
  \/ \E ok \in BOOLEAN : ExecuteAction(ok)
  \/ QueuePending
  \/ QueueWritten
  \/ BeginRollback
  \/ EndRollback

HandlerStep ==
  \/ ApproveRead
  \/ ApproveExpired
  \/ ApproveExecute
  \/ ApproveRemove

LoopNext ==
  \/ LoopStep
  \/ HandlerStep
  \/ ReloadConfig
  \/ SignalRestart
  \/ Restart
  \/ Crash
  \/ Start
  \/ \E c \in Configs : ForeignCommit(c)
  \/ \E a \in Anomalies : CooldownOver(a)
  \/ ProposalAges
  \/ WorldChanges

LoopSpec == LoopInit /\ [][LoopNext]_loopVars

(***************************************************************************)
(* Fairness.  The main goroutine keeps running and every call it makes has *)
(* a timeout (system commands, the AI client), so its next step is weakly  *)
(* fair, and so is the goroutine that has suspended the watchdog and is to *)
(* signal; procd respawns the process.  The signal competes with the       *)
(* tickers in one `select', where Go picks among the ready cases at        *)
(* random: strong fairness.                                                *)
(***************************************************************************)
LoopFairness ==
  /\ WF_loopVars(LoopStep)
  /\ WF_loopVars(SignalRestart)
  /\ SF_loopVars(Restart)
  /\ WF_loopVars(Start)

FairLoopSpec == LoopSpec /\ LoopFairness

-------------------------------------------------------------------------------
(* Properties.                                                             *)

\* Types of the loop's state; the phase of the watchdog's multi-step
\* operations agrees with the program counter that drives them, and the safe
\* mode that a tick has found is still on when the tick is counted.
LoopTypeOK ==
  /\ WDTypeOK
  /\ loop \in LoopStates
  /\ job \in Jobs
  /\ cooling \subseteq Anomalies
  /\ restarting \in {"no", "asked", "signalled"}
  /\ pending \in Pendings
  /\ handler \in Handlers
  /\ wanUp \in BOOLEAN /\ killSwitch \in BOOLEAN
  /\ proposed \in 0 .. MaxProposals
  /\ executions \in [Proposals -> Nat]
  /\ unremoved \in [Proposals -> Nat]
  /\ outdated \in BOOLEAN
  /\ phase = "exporting" => loop = "export"
  /\ phase = "rollback" => loop = "rollback"
  /\ loop = "check" => safeModeActive

\* The loop treats no anomaly in safe mode: the check at the top of the tick
\* stays true until the treatment ends, although the approval handler, the
\* reload handler and restarts run in between.  The exception is the window
\* between a configuration reload and the restart it asks for, in which
\* Suspend makes IsSafeMode answer false.
HealsOnlyWhenAllowed ==
  up /\ Treating /\ safeModeActive => suspended /\ restarting # "no"

\* When the loop executes a high-risk action on a skill or an AI answer, the
\* checkpoint file is the export it has just asked for, unless the file could
\* not be opened or another process committed meanwhile; and if that export
\* did not fail, a rollback from it would bring back exactly the
\* configuration that the action is about to change.
GatedChangeIsRecoverable ==
  ~outdated /\ loop = "execute" /\ job.path # "fallback"
      /\ job.action \in HighRisk
    => /\ checkpoint.kind \in {"uci", "torn"}
       /\ checkpoint.kind = "uci" => RolledBack(checkpoint, TRUE) = {config}

\* An approved proposal is executed once, however approvals, new proposals
\* that overwrite the file, and restarts interleave; only an execution that
\* leaves its proposal in the file, because os.Remove failed or the process
\* died first, lets it run once more.
ApprovedOnce ==
  \A i \in Proposals : executions[i] <= 1 + unremoved[i]

\* Safe mode does not last: the loop counts it down, or the process goes.
\* In particular a suspension never leaves the agent in safe mode forever.
SafeModeEnds == up /\ safeModeActive ~> ~up \/ ~safeModeActive

\* A reload's restart signal is served whatever the loop is doing.
RestartServed == restarting # "no" ~> ~up

-------------------------------------------------------------------------------
(* The promise about safe mode and healing.  What is still to be checked   *)
(* is what the count in memory lacks; without a process, what was owed.    *)

Mode == IF ~up THEN "down" ELSE IF safeModeActive THEN "safe" ELSE "normal"

Debt == IF up /\ safeModeActive THEN ExitChecks - successfulChecks ELSE owed

SH == INSTANCE SafeHealing WITH
        mode     <- Mode,
        debt     <- Debt,
        lost     <- saveLost,
        leaving  <- suspended,
        treating <- Treating

\* The loop, the approval handler, reloads, crashes and restarts together keep
\* the promise of SafeHealing (main.go:843-857, watchdog.go:54-96).
ImplementsSafeHealing == SH!Spec
===============================================================================
