--------------------------- MODULE HealingLoopProofs ---------------------------
(***************************************************************************)
(* The watchdog and the healing loop, for every value of the constants:    *)
(* first the watchdog alone (Spec); then every step of the composed system *)
(* (LoopSpec) is a step of the watchdog, so what is proved of safe mode    *)
(* holds beside approvals, reloads and crashes; then the loop's own        *)
(* invariants.                                                             *)
(*                                                                         *)
(* The three invariants of Watchdog support one another.  A start in safe  *)
(* mode owes the full count only because the file never stores a partial   *)
(* count (NoPartialCount); the count in memory is what is still owed       *)
(* (CountIsExact), so the fifth check leaves nothing owed                  *)
(* (HealingIsEarned); and a process that dies while checks are owed leaves *)
(* a file that puts the next process into safe mode (SafeModeDurable).     *)
(***************************************************************************)
EXTENDS HealingLoop, TLAPS

-------------------------------------------------------------------------------
(* The watchdog alone.                                                     *)

\* The watchdog writes the file when its count is zero only.
NoPartialCount == checkpoint.checks = 0

WDInv ==
  /\ WDTypeOK
  /\ NoPartialCount
  /\ CountIsExact
  /\ HealingIsEarned
  /\ SafeModeDurable

-------------------------------------------------------------------------------

\* The count fits its range at its two reset points.
LEMMA CountRange ==
  /\ ExitChecks \in Nat \ {0}
  /\ 0 \in 0 .. ExitChecks - 1
  /\ 0 \in 0 .. ExitChecks
  /\ ExitChecks \in 0 .. ExitChecks
  BY ConstantsAssumption

\* What a rollback commits is a configuration of the right type, whatever
\* the file holds (RolledBack models the branches of ExecuteRollback).
LEMMA RolledBackType ==
  ASSUME config \in Configs, NEW file \in Checkpoints, NEW works \in BOOLEAN
  PROVE  RolledBack(file, works) \subseteq Configs
<1> USE ConstantsAssumption DEF Configs, Checkpoints
<1>1. WithDefaults \in Configs
  BY DEF WithDefaults
<1>2. CASE ~works
  BY <1>1, <1>2 DEF RolledBack
<1>3. CASE works /\ file.kind = "uci"
  BY <1>3 DEF RolledBack
<1>4. CASE works /\ file.kind = "torn"
  BY <1>1, <1>4 DEF RolledBack, Mixed
<1>5. CASE works /\ file.kind \notin {"uci", "torn"}
  BY <1>1, <1>5 DEF RolledBack
<1> QED
  BY <1>2, <1>3, <1>4, <1>5

\* Every initial state satisfies the inductive invariant.
LEMMA WDInit == Init => WDInv
<1> SUFFICES ASSUME Init PROVE WDInv
  OBVIOUS
<1>1. WDTypeOK
  <2>1. checkpoint \in Checkpoints /\ config \in Configs
    BY DEF Init, InitialCheckpoints
  <2>2. successfulChecks \in 0 .. ExitChecks - 1 /\ owed \in 0 .. ExitChecks
    BY ConstantsAssumption DEF Init
  <2> QED
    BY <2>1, <2>2 DEF Init, WDTypeOK, Phases
<1>2. NoPartialCount
  BY DEF Init, InitialCheckpoints, NoPartialCount
<1>3. CountIsExact /\ HealingIsEarned
  BY DEF Init, CountIsExact, HealingIsEarned
<1>4. SafeModeDurable
  BY DEF Init, SafeModeDurable
<1> QED
  BY <1>1, <1>2, <1>3, <1>4 DEF WDInv

\* The write of a JSON checkpoint, when it succeeds.
LEMMA SavedCheckpoint ==
  ASSUME WDTypeOK, NEW safe \in BOOLEAN,
         checkpoint' = JSONCheckpoint(safe, 0)
  PROVE  /\ checkpoint' \in Checkpoints
         /\ checkpoint'.checks = 0
         /\ BootsSafe(checkpoint') <=> safe
<1>1. checkpoint' \in Checkpoints
  BY CountRange DEF WDTypeOK, JSONCheckpoint, Checkpoints
<1>2. checkpoint'.kind = "json" /\ checkpoint'.checks = 0
  BY DEF WDTypeOK, JSONCheckpoint, Checkpoints
<1>3. checkpoint'.safe = safe
  BY DEF WDTypeOK, JSONCheckpoint, Checkpoints
<1> QED
  BY <1>1, <1>2, <1>3 DEF BootsSafe, Loads

\* Every step of the watchdog, of its process and of the main loop's export
\* preserves the inductive invariant.
LEMMA WDStep == WDInv /\ [Next]_wdVars => WDInv'
<1> SUFFICES ASSUME WDInv, [Next]_wdVars PROVE WDInv'
  OBVIOUS
<1> USE CountRange
<1>0. WDTypeOK /\ NoPartialCount /\ CountIsExact /\ HealingIsEarned
        /\ SafeModeDurable
  BY DEF WDInv
<1>1. CASE Boot
  <2>1. WDTypeOK'
    BY <1>0, <1>1 DEF Boot, WDTypeOK, Checkpoints, Phases, Loads
  <2>2. NoPartialCount'
    BY <1>0, <1>1 DEF Boot, NoPartialCount
  <2>3. CountIsExact' /\ HealingIsEarned' /\ SafeModeDurable'
    BY <1>0, <1>1 DEF Boot, WDTypeOK, NoPartialCount, CountIsExact,
       HealingIsEarned, SafeModeDurable, BootsSafe, Loads, Checkpoints
  <2> QED
    BY <2>1, <2>2, <2>3 DEF WDInv
<1>2. CASE Exit
  <2>1. WDTypeOK'
    BY <1>0, <1>2 DEF Exit, WDTypeOK, Phases
  <2>2. NoPartialCount' /\ CountIsExact' /\ HealingIsEarned'
          /\ SafeModeDurable'
    BY <1>0, <1>2 DEF Exit, NoPartialCount, CountIsExact, HealingIsEarned,
       SafeModeDurable, BootsSafe, Loads
  <2> QED
    BY <2>1, <2>2 DEF WDInv
<1>3. CASE Suspend \/ Resume
  <2>1. /\ suspended' \in BOOLEAN
        /\ UNCHANGED << up, safeModeActive, successfulChecks, phase,
                        checkpoint, config, owed, saveLost >>
    BY <1>3 DEF Suspend, Resume
  <2>2. WDTypeOK'
    BY <1>0, <2>1 DEF WDTypeOK
  <2> QED
    BY <1>0, <2>1, <2>2 DEF WDInv, NoPartialCount, CountIsExact,
       HealingIsEarned, SafeModeDurable, BootsSafe, Loads
<1>4. CASE RecordHealthCheckSuccess
  <2>1. owed + successfulChecks = ExitChecks /\ up /\ safeModeActive
    BY <1>0, <1>4 DEF RecordHealthCheckSuccess, CountIsExact
  <2>2. CASE successfulChecks + 1 >= ExitChecks
    <3>1. /\ owed' = owed - 1
          /\ safeModeActive' = FALSE
          /\ successfulChecks' = 0
          /\ SaveCheckpoint(FALSE, 0)
          /\ UNCHANGED << up, suspended, phase, config >>
      BY <1>4, <2>2 DEF RecordHealthCheckSuccess
    <3>2. successfulChecks \in 0 .. ExitChecks - 1 /\ owed \in 0 .. ExitChecks
      BY <1>0 DEF WDTypeOK
    <3>3. owed' = 0
      BY <2>1, <2>2, <3>1, <3>2
    <3>4. checkpoint' \in Checkpoints /\ checkpoint'.checks = 0
            /\ saveLost' \in BOOLEAN
      BY <1>0, <3>1, SavedCheckpoint
         DEF SaveCheckpoint, WDTypeOK, NoPartialCount
    <3>5. WDTypeOK'
      BY <1>0, <3>1, <3>3, <3>4 DEF WDTypeOK
    <3>6. ~(owed' > 0)
      BY <3>3
    <3> QED
      BY <3>1, <3>3, <3>4, <3>5, <3>6 DEF WDInv, NoPartialCount,
         CountIsExact, HealingIsEarned, SafeModeDurable
  <2>3. CASE ~(successfulChecks + 1 >= ExitChecks)
    <3>1. /\ owed' = owed - 1 /\ successfulChecks' = successfulChecks + 1
          /\ UNCHANGED << up, safeModeActive, suspended, phase, config,
                          checkpoint, saveLost >>
      BY <1>4, <2>3 DEF RecordHealthCheckSuccess
    <3> QED
      BY <1>0, <2>1, <2>3, <3>1 DEF WDInv, WDTypeOK, NoPartialCount,
         CountIsExact, HealingIsEarned, SafeModeDurable, BootsSafe, Loads
  <2> QED
    BY <2>2, <2>3
<1>5. CASE ExportBegin
  <2>1. checkpoint' \in Checkpoints /\ checkpoint'.checks = 0
          /\ checkpoint'.kind = "torn"
    BY <1>0, <1>5 DEF ExportBegin, WDTypeOK, NoPartialCount, Checkpoints,
       Configs
  <2> QED
    BY <1>0, <1>5, <2>1 DEF WDInv, ExportBegin, WDTypeOK, Phases,
       NoPartialCount, CountIsExact, HealingIsEarned, SafeModeDurable,
       BootsSafe, Loads
<1>6. CASE ExportEnd
  <2>1. checkpoint' \in Checkpoints /\ checkpoint'.checks = 0
          /\ (BootsSafe(checkpoint) => BootsSafe(checkpoint'))
    <3>1. Mixed(checkpoint.exported, config) \subseteq Configs
      BY <1>0 DEF Mixed, Configs, WDTypeOK, Checkpoints
    <3>2. ASSUME NEW c \in Mixed(checkpoint.exported, config),
                 checkpoint' = [checkpoint EXCEPT !.kind = "uci", !.exported = c]
          PROVE  /\ checkpoint' \in Checkpoints /\ checkpoint'.checks = 0
                 /\ checkpoint'.kind = "uci"
      BY <1>0, <3>1, <3>2 DEF WDTypeOK, NoPartialCount, Checkpoints
    <3> QED
      BY <1>0, <1>6, <3>2 DEF ExportEnd, WDTypeOK, NoPartialCount, BootsSafe,
         Loads
  <2> QED
    BY <1>0, <1>6, <2>1 DEF WDInv, ExportEnd, WDTypeOK, Phases,
       NoPartialCount, CountIsExact, HealingIsEarned, SafeModeDurable
<1>7. CASE RollbackRestore
  <2>1. config' \in Configs
    BY <1>0, <1>7, RolledBackType DEF RollbackRestore, WDTypeOK
  <2> QED
    BY <1>0, <1>7, <2>1 DEF WDInv, RollbackRestore, WDTypeOK, Phases,
       NoPartialCount, CountIsExact, HealingIsEarned, SafeModeDurable,
       BootsSafe, Loads
<1>8. CASE RollbackFinish
  <2>1. /\ safeModeActive' = TRUE /\ successfulChecks' = 0
        /\ owed' = ExitChecks /\ phase' = "idle"
        /\ SaveCheckpoint(TRUE, 0)
        /\ UNCHANGED << up, suspended, config >>
    BY <1>8 DEF RollbackFinish
  <2>2. checkpoint' \in Checkpoints /\ checkpoint'.checks = 0
          /\ saveLost' \in BOOLEAN
          /\ (~saveLost' => BootsSafe(checkpoint'))
    BY <1>0, <2>1, SavedCheckpoint
       DEF SaveCheckpoint, WDTypeOK, NoPartialCount
  <2> QED
    BY <1>0, <2>1, <2>2 DEF WDInv, WDTypeOK, Phases, NoPartialCount,
       CountIsExact, HealingIsEarned, SafeModeDurable
<1>9. CASE \E c \in Configs : CommitConfig(c)
  BY <1>0, <1>9 DEF WDInv, CommitConfig, WDTypeOK, NoPartialCount,
     CountIsExact, HealingIsEarned, SafeModeDurable, BootsSafe, Loads
<1>10. CASE UNCHANGED wdVars
  BY <1>0, <1>10 DEF WDInv, wdVars, WDTypeOK, NoPartialCount,
     CountIsExact, HealingIsEarned, SafeModeDurable, BootsSafe, Loads
<1> QED
  BY <1>1, <1>2, <1>3, <1>4, <1>5, <1>6, <1>7, <1>8, <1>9, <1>10 DEF Next

\* The inductive invariant holds of every behaviour.
LEMMA WDInvariance == Spec => []WDInv
  BY WDInit, WDStep, PTL DEF Spec

-------------------------------------------------------------------------------

\* Types: in particular at most ExitChecks checks are ever owed, and the
\* count of RecordHealthCheckSuccess never reaches the exit value at rest.
THEOREM WatchdogTypes == Spec => []WDTypeOK
<1>1. WDInv => WDTypeOK
  BY DEF WDInv
<1> QED
  BY <1>1, WDInvariance, PTL

\* Safe mode survives crashes and restarts in every interleaving with the
\* writes of the shared checkpoint file.
THEOREM SafeModeSurvivesRestart == Spec => []SafeModeDurable
<1>1. WDInv => SafeModeDurable
  BY DEF WDInv
<1> QED
  BY <1>1, WDInvariance, PTL

\* The agent heals again only after ExitChecks checks recorded by one
\* process, and the count in memory is what is still owed.
THEOREM SafeModeExitIsEarned == Spec => [](HealingIsEarned /\ CountIsExact)
<1>1. WDInv => HealingIsEarned /\ CountIsExact
  BY DEF WDInv
<1> QED
  BY <1>1, WDInvariance, PTL

-------------------------------------------------------------------------------
(* The composition implements the watchdog.                                *)

\* What the executor commits is a configuration.
LEMMA EffectsType == config \in Configs => Effects \subseteq Configs
  BY DEF Effects, Configs

\* The main loop's steps, as steps of the watchdog.
LEMMA LoopStepImplements ==
  ASSUME config \in Configs, LoopStep PROVE [Next]_wdVars
<1> USE DEF Next
<1>1. CASE SafeModeTick \/ CountTick
  BY <1>1 DEF SafeModeTick, CountTick
<1>2. CASE QuietTick
  BY <1>2, EffectsType DEF QuietTick
<1>3. ASSUME NEW a \in Anomalies, AnomalyTick(a) PROVE [Next]_wdVars
  BY <1>3, EffectsType DEF AnomalyTick
<1>4. ASSUME NEW act \in Actions, Decide(act) PROVE [Next]_wdVars
  BY <1>4 DEF Decide
<1>5. CASE BeginCheckpoint \/ NoCheckpoint \/ EndCheckpoint
  BY <1>5 DEF BeginCheckpoint, NoCheckpoint, EndCheckpoint
<1>6. ASSUME NEW ok \in BOOLEAN, ExecuteAction(ok) PROVE [Next]_wdVars
  BY <1>6, EffectsType DEF ExecuteAction
<1>7. CASE QueuePending \/ QueueWritten
  BY <1>7 DEF QueuePending, QueueWritten
<1>8. CASE BeginRollback \/ EndRollback
  BY <1>8 DEF BeginRollback, EndRollback
<1> QED
  BY <1>1, <1>2, <1>3, <1>4, <1>5, <1>6, <1>7, <1>8 DEF LoopStep

\* The other processes' steps, as steps of the watchdog.
LEMMA StepImplements ==
  ASSUME config \in Configs, [LoopNext]_loopVars PROVE [Next]_wdVars
<1> USE DEF Next
<1>1. CASE LoopStep
  BY <1>1, LoopStepImplements
<1>2. CASE HandlerStep
  BY <1>2, EffectsType
     DEF HandlerStep, ApproveRead, ApproveExpired, ApproveExecute, ApproveRemove
<1>3. CASE ReloadConfig \/ SignalRestart
  BY <1>3 DEF ReloadConfig, SignalRestart
<1>4. CASE Restart \/ Crash
  BY <1>4 DEF Restart, Crash
<1>5. CASE Start
  BY <1>5 DEF Start
<1>6. CASE \E c \in Configs : ForeignCommit(c)
  BY <1>6 DEF ForeignCommit
<1>7. CASE \E a \in Anomalies : CooldownOver(a)
  BY <1>7 DEF CooldownOver
<1>8. CASE ProposalAges \/ WorldChanges
  BY <1>8 DEF ProposalAges, WorldChanges
<1>9. CASE UNCHANGED loopVars
  BY <1>9 DEF loopVars
<1> QED
  BY <1>1, <1>2, <1>3, <1>4, <1>5, <1>6, <1>7, <1>8, <1>9 DEF LoopNext

\* The watchdog's inductive invariant survives every step of the system.
LEMMA LoopWDStep == WDInv /\ [LoopNext]_loopVars => WDInv'
  BY StepImplements, WDStep DEF WDInv, WDTypeOK

LEMMA LoopWDInvariance == LoopSpec => []WDInv
  BY WDInit, LoopWDStep, PTL DEF LoopSpec, LoopInit

\* Every behaviour of the healing loop, the approval handler, reloads,
\* crashes and restarts is a behaviour of the watchdog's specification.
THEOREM LoopImplementsWatchdog == LoopSpec => Spec
<1>1. LoopInit => Init
  BY DEF LoopInit
<1>2. WDInv /\ [LoopNext]_loopVars => [Next]_wdVars
  BY StepImplements DEF WDInv, WDTypeOK
<1> QED
  BY <1>1, <1>2, LoopWDInvariance, PTL DEF LoopSpec, Spec

-------------------------------------------------------------------------------
(* The loop's own invariant.                                               *)

\* Only a running process is inside a treatment, a suspended watchdog means
\* that a restart is pending, and a proposal is queued within the bound.
Treatment ==
  /\ loop # "select" => up
  /\ loop = "queue" => proposed < MaxProposals
  /\ loop = "queueWrite" => proposed > 0
  /\ suspended => restarting # "no"

\* While the file is exported it is marked torn, and what is printed is the
\* configuration in force unless another process has changed it.
ExportMarked ==
  phase = "exporting"
    => /\ checkpoint.kind = "torn"
       /\ ~outdated => checkpoint.exported = config

\* The newest proposal whose file write has ended.
Written == IF loop = "queueWrite" THEN proposed - 1 ELSE proposed

\* Nobody holds a proposal that was not written, and an executed proposal is
\* only in the file while the handler that executed it has not yet removed
\* it, or in the hands of a handler, if every execution so far left it there.
Tracked ==
  /\ pending.kind = "full" => pending.id \in 1 .. Written
  /\ handler.pc # "idle" => handler.id \in 1 .. Written
  /\ \A i \in Proposals :
       /\ executions[i] > 0 => i <= Written
       /\ pending.kind = "full" /\ pending.id = i
            => executions[i] <= unremoved[i]
                 \/ (handler.pc = "executed" /\ handler.id = i)
       /\ handler.pc = "approved" /\ handler.id = i
            => executions[i] <= unremoved[i]

\* The checkpoint of a high-risk action, at the moment it is executed.
Recoverable ==
  ~outdated /\ loop = "execute" /\ job.path # "fallback"
      /\ job.action \in HighRisk
    => /\ checkpoint.kind \in {"uci", "torn"}
       /\ checkpoint.kind = "uci" => checkpoint.exported = config

LoopInv ==
  /\ WDInv
  /\ LoopTypeOK
  /\ Treatment
  /\ ExportMarked
  /\ HealsOnlyWhenAllowed
  /\ Tracked
  /\ ApprovedOnce
  /\ Recoverable

LEMMA LoopInitInv == LoopInit => LoopInv
<1> SUFFICES ASSUME LoopInit PROVE LoopInv
  OBVIOUS
<1>1. WDInv /\ WDTypeOK
  BY WDInit DEF LoopInit, WDInv
<1>2. NoJob \in Jobs
  BY LoopAssumption DEF NoJob, Jobs, Paths
<1>3. NoPending \in Pendings /\ IdleHandler \in Handlers
  BY LoopAssumption DEF NoPending, Pendings, IdleHandler, Handlers
<1>4. LoopTypeOK
  <2>1. proposed \in 0 .. MaxProposals
    BY LoopAssumption DEF LoopInit
  <2>2. executions \in [Proposals -> Nat] /\ unremoved \in [Proposals -> Nat]
    BY DEF LoopInit
  <2>3. (phase = "exporting" => loop = "export")
          /\ (phase = "rollback" => loop = "rollback")
          /\ (loop = "check" => safeModeActive)
    BY DEF LoopInit, Init
  <2> QED
    BY <1>1, <1>2, <1>3, <2>1, <2>2, <2>3
       DEF LoopInit, LoopTypeOK, LoopStates
<1>5. Treatment /\ ExportMarked /\ HealsOnlyWhenAllowed /\ Recoverable
  BY DEF LoopInit, Init, Treatment, ExportMarked, HealsOnlyWhenAllowed,
     Treating, Recoverable
<1>6. Tracked /\ ApprovedOnce
  BY DEF LoopInit, Tracked, ApprovedOnce, NoPending, IdleHandler, Proposals
<1> QED
  BY <1>1, <1>4, <1>5, <1>6 DEF LoopInv

\* The proposals that the file and the handler hold were queued before.
LEMMA HeldProposals ==
  ASSUME LoopTypeOK, Tracked
  PROVE  /\ pending.kind = "full" => pending.id \in Proposals
         /\ handler.pc # "idle" => handler.id \in Proposals
<1>1. proposed \in 0 .. MaxProposals
  BY DEF LoopTypeOK
<1>2. 1 .. Written \subseteq Proposals
  BY <1>1, LoopAssumption DEF Written, Proposals
<1> QED
  BY <1>2 DEF Tracked

LEMMA StillInFileType ==
  ASSUME LoopTypeOK, Tracked PROVE StillInFile \in [Proposals -> Nat]
<1>1. unremoved \in [Proposals -> Nat]
  BY DEF LoopTypeOK
<1>2. CASE handler.pc = "executed"
  <2>1. handler.id \in Proposals
    BY <1>2, HeldProposals
  <2>2. [unremoved EXCEPT ![handler.id] = @ + 1] \in [Proposals -> Nat]
    BY <1>1, <2>1
  <2> QED
    BY <1>1, <2>2 DEF StillInFile
<1>3. CASE handler.pc # "executed"
  BY <1>1, <1>3 DEF StillInFile
<1> QED
  BY <1>2, <1>3

\* The types of the loop's own variables.
LEMMA LoopTypeStep ==
  ASSUME LoopTypeOK, Treatment, Tracked, WDTypeOK', [LoopNext]_loopVars
  PROVE  LoopTypeOK'
<1>0. /\ loop \in LoopStates /\ job \in Jobs /\ cooling \subseteq Anomalies
      /\ restarting \in {"no", "asked", "signalled"} /\ pending \in Pendings
      /\ handler \in Handlers /\ wanUp \in BOOLEAN /\ killSwitch \in BOOLEAN
      /\ proposed \in 0 .. MaxProposals
      /\ executions \in [Proposals -> Nat] /\ unremoved \in [Proposals -> Nat]
      /\ outdated \in BOOLEAN
      /\ (phase = "exporting" => loop = "export")
      /\ (phase = "rollback" => loop = "rollback")
      /\ (loop = "check" => safeModeActive)
  BY DEF LoopTypeOK
<1>1. NoJob \in Jobs /\ NoPending \in Pendings /\ IdleHandler \in Handlers
  BY LoopAssumption DEF NoJob, Jobs, Paths, NoPending, Pendings, IdleHandler,
     Handlers
<1>2. CASE LoopStep
  <2>1. CASE SafeModeTick \/ CountTick
    <3>1. CASE SafeModeTick
      BY <1>0, <3>1 DEF SafeModeTick, InLoop, IsSafeMode, LoopTypeOK, wdVars,
         worldVars, histVars, LoopStates
    <3>2. CASE CountTick
      BY <1>0, <3>2 DEF CountTick, InLoop, RecordHealthCheckSuccess,
         LoopTypeOK, worldVars, histVars, LoopStates
    <3> QED
      BY <2>1, <3>1, <3>2
  <2>2. CASE QuietTick
    BY <1>0, <2>2 DEF QuietTick, InLoop, CommitConfig,
       LoopTypeOK, worldVars, histVars
  <2>3. ASSUME NEW a \in Anomalies, AnomalyTick(a) PROVE LoopTypeOK'
    <3>1. job' \in Jobs /\ cooling' \subseteq Anomalies
      BY <1>0, <2>3 DEF AnomalyTick, Jobs
    <3>2. /\ loop' \in LoopStates \ {"check"} /\ phase' = phase
          /\ loop = "select"
          /\ UNCHANGED << restarting, handler, wanUp, killSwitch, proposed,
                          executions, unremoved, outdated, pending >>
      BY <2>3 DEF AnomalyTick, InLoop, CommitConfig, worldVars, histVars,
         LoopStates
    <3> QED
      BY <1>0, <3>1, <3>2 DEF LoopTypeOK
  <2>4. ASSUME NEW act \in Actions, Decide(act) PROVE LoopTypeOK'
    <3>1. loop' \in LoopStates \ {"check"}
      BY <2>4 DEF Decide, ChooseConfident, ChooseGated, ChooseFallback,
         LoopStates
    <3>2. job' \in Jobs
      BY <1>0, <2>4 DEF Decide, ChooseConfident, ChooseGated, ChooseFallback,
         Jobs, Paths
    <3>3. /\ phase' = phase /\ loop = "decide"
          /\ UNCHANGED << cooling, restarting, handler, wanUp, killSwitch,
                          proposed, executions, unremoved, outdated, pending >>
      BY <2>4 DEF Decide, wdVars, worldVars, histVars
    <3> QED
      BY <1>0, <3>1, <3>2, <3>3 DEF LoopTypeOK
  <2>5. CASE BeginCheckpoint \/ NoCheckpoint
    BY <1>0, <2>5 DEF BeginCheckpoint, NoCheckpoint, InLoop, ExportBegin,
       LoopTypeOK, wdVars, worldVars, LoopStates
  <2>6. CASE EndCheckpoint
    BY <1>0, <2>6 DEF EndCheckpoint, InLoop, ExportEnd,
       LoopTypeOK, worldVars, histVars, LoopStates
  <2>7. ASSUME NEW ok \in BOOLEAN, ExecuteAction(ok) PROVE LoopTypeOK'
    BY <1>0, <1>1, <2>7 DEF ExecuteAction, CommitConfig,
       LoopTypeOK, worldVars, histVars, LoopStates
  <2>8. CASE QueuePending
    <3>1. proposed' \in 0 .. MaxProposals
      BY <1>0, <2>8, LoopAssumption DEF QueuePending, InLoop, Treatment
    <3>2. pending' \in Pendings
      BY <1>1, <2>8 DEF QueuePending, Pendings
    <3>3. /\ loop' = "queueWrite" /\ phase' = phase /\ loop = "queue"
          /\ UNCHANGED << job, cooling, restarting, handler, wanUp, killSwitch,
                          executions, unremoved, outdated >>
      BY <2>8 DEF QueuePending, InLoop, wdVars, worldVars
    <3> QED
      BY <1>0, <3>1, <3>2, <3>3 DEF LoopTypeOK, LoopStates
  <2>9. CASE QueueWritten
    <3>1. pending' \in Pendings
      BY <1>0, <2>9 DEF QueueWritten, Pendings
    <3>2. /\ loop' \in LoopStates \ {"check"} /\ phase' = phase
          /\ loop = "queueWrite"
          /\ job' \in {job, NoJob}
          /\ UNCHANGED << cooling, restarting, handler, wanUp, killSwitch,
                          proposed, executions, unremoved, outdated >>
      BY <2>9 DEF QueueWritten, wdVars, worldVars, histVars, LoopStates
    <3> QED
      BY <1>0, <1>1, <3>1, <3>2 DEF LoopTypeOK
  <2>10. CASE BeginRollback
    BY <1>0, <2>10 DEF BeginRollback, InLoop, RollbackRestore,
       LoopTypeOK, worldVars, histVars, LoopStates
  <2>11. CASE EndRollback
    BY <1>0, <1>1, <2>11 DEF EndRollback, InLoop, RollbackFinish,
       LoopTypeOK, worldVars, histVars, LoopStates
  <2> QED
    BY <1>2, <2>1, <2>2, <2>3, <2>4, <2>5, <2>6, <2>7, <2>8, <2>9, <2>10,
       <2>11 DEF LoopStep
<1>3. CASE HandlerStep
  <2>1. CASE ApproveRead
    <3>1. handler' \in Handlers
      BY <1>0, <2>1 DEF ApproveRead, Pendings, Handlers
    <3> QED
      BY <1>0, <2>1, <3>1 DEF ApproveRead, LoopTypeOK, wdVars, worldVars,
         histVars
  <2>2. CASE ApproveExpired
    BY <1>0, <1>1, <2>2 DEF ApproveExpired, LoopTypeOK,
       wdVars, procVars, worldVars, histVars
  <2>4. CASE ApproveRemove
    <3>1. unremoved' \in [Proposals -> Nat]
      BY <2>4, StillInFileType DEF ApproveRemove
    <3> QED
      BY <1>0, <1>1, <2>4, <3>1 DEF ApproveRemove, LoopTypeOK, wdVars, worldVars
  <2>3. CASE ApproveExecute
    <3>1. handler' \in Handlers
      BY <1>0, <2>3 DEF ApproveExecute, Handlers
    <3>2. executions' \in [Proposals -> Nat]
      BY <1>0, <2>3, HeldProposals DEF ApproveExecute
    <3>3. /\ outdated' = TRUE /\ phase' = phase
          /\ safeModeActive' = safeModeActive
          /\ UNCHANGED << loop, job, cooling, restarting, wanUp, killSwitch,
                          proposed, unremoved, pending >>
      BY <2>3 DEF ApproveExecute, CommitConfig, worldVars
    <3> QED
      BY <1>0, <3>1, <3>2, <3>3 DEF LoopTypeOK
  <2> QED
    BY <1>3, <2>1, <2>2, <2>3, <2>4 DEF HandlerStep
<1>4. CASE ReloadConfig \/ SignalRestart
  BY <1>0, <1>4 DEF ReloadConfig, SignalRestart, Suspend, LoopTypeOK, wdVars,
     worldVars, histVars
<1>5. CASE Restart \/ Crash
  <2>1. /\ Exit /\ ProcessGone
        /\ pending' \in {pending, NoPending}
    BY <1>5 DEF Restart, Crash
  <2>2. unremoved' \in [Proposals -> Nat]
    BY <2>1, StillInFileType DEF ProcessGone
  <2> QED
    BY <1>0, <1>1, <2>1, <2>2 DEF Exit, ProcessGone, LoopTypeOK, worldVars,
       LoopStates
<1>6. CASE Start
  BY <1>0, <1>6 DEF Start, Boot, LoopTypeOK, Treatment, procVars, worldVars,
     histVars
<1>7. CASE \E c \in Configs : ForeignCommit(c)
  BY <1>0, <1>7 DEF ForeignCommit, CommitConfig, LoopTypeOK, procVars,
     worldVars
<1>8. CASE \E a \in Anomalies : CooldownOver(a)
  BY <1>0, <1>8 DEF CooldownOver, LoopTypeOK, wdVars, worldVars, histVars
<1>9. CASE ProposalAges \/ WorldChanges
  BY <1>0, <1>9 DEF ProposalAges, WorldChanges, Pendings, LoopTypeOK, wdVars,
     procVars, worldVars, histVars
<1>10. CASE UNCHANGED loopVars
  BY <1>0, <1>10 DEF loopVars, LoopTypeOK, wdVars, procVars, worldVars,
     histVars
<1> QED
  BY <1>2, <1>3, <1>4, <1>5, <1>6, <1>7, <1>8, <1>9, <1>10 DEF LoopNext

\* No step starts or keeps a treatment in safe mode, unless a reload has
\* just suspended the watchdog.
LEMMA AllowedStep ==
  ASSUME LoopTypeOK, Treatment, HealsOnlyWhenAllowed, [LoopNext]_loopVars
  PROVE  Treatment' /\ HealsOnlyWhenAllowed'
<1> USE DEF Treatment, HealsOnlyWhenAllowed, Treating
<1>0. proposed \in 0 .. MaxProposals /\ MaxProposals \in Nat
  BY LoopAssumption DEF LoopTypeOK
<1>1. CASE LoopStep
  <2>1. CASE SafeModeTick \/ CountTick
    <3>1. CASE SafeModeTick
      BY <3>1 DEF SafeModeTick, InLoop, wdVars, histVars
    <3>2. CASE CountTick
      BY <3>2 DEF CountTick, InLoop, RecordHealthCheckSuccess
    <3> QED
      BY <2>1, <3>1, <3>2
  <2>2. CASE QuietTick
    BY <2>2 DEF QuietTick, InLoop, CommitConfig
  <2>3. CASE \E a \in Anomalies : AnomalyTick(a)
    BY <2>3 DEF AnomalyTick, InLoop, IsSafeMode, CommitConfig
  <2>4. ASSUME NEW act \in Actions, Decide(act)
        PROVE  Treatment' /\ HealsOnlyWhenAllowed'
    <3>1. /\ loop = "decide" /\ up
          /\ UNCHANGED << up, safeModeActive, suspended, restarting, proposed >>
      BY <2>4 DEF Decide, wdVars, histVars
    <3>2. /\ loop' = "queue" => proposed < MaxProposals
          /\ loop' # "queueWrite"
      BY <2>4 DEF Decide, ChooseConfident, ChooseGated, ChooseFallback
    <3> QED
      BY <3>1, <3>2
  <2>5. CASE BeginCheckpoint \/ NoCheckpoint \/ EndCheckpoint
    <3>1. /\ loop = "export" /\ loop' \in {"export", "execute"} /\ up
          /\ UNCHANGED << up, safeModeActive, suspended, restarting >>
      BY <2>5 DEF BeginCheckpoint, NoCheckpoint, EndCheckpoint, InLoop,
         ExportBegin, ExportEnd, wdVars
    <3> QED
      BY <3>1
  <2>6. CASE \E ok \in BOOLEAN : ExecuteAction(ok)
    BY <2>6 DEF ExecuteAction, CommitConfig
  <2>7. CASE QueuePending \/ QueueWritten
    <3>1. CASE QueuePending
      BY <1>0, <3>1 DEF QueuePending, InLoop, wdVars
    <3>2. CASE QueueWritten
      BY <3>2 DEF QueueWritten, wdVars
    <3> QED
      BY <2>7, <3>1, <3>2
  <2>8. CASE BeginRollback \/ EndRollback
    <3>1. CASE BeginRollback
      BY <3>1 DEF BeginRollback, InLoop, RollbackRestore
    <3>2. CASE EndRollback
      BY <3>2 DEF EndRollback, InLoop, RollbackFinish
    <3> QED
      BY <2>8, <3>1, <3>2
  <2> QED
    BY <1>1, <2>1, <2>2, <2>3, <2>4, <2>5, <2>6, <2>7, <2>8 DEF LoopStep
<1>2. CASE HandlerStep
  BY <1>2 DEF HandlerStep, ApproveRead, ApproveExpired, ApproveExecute,
     ApproveRemove, CommitConfig, wdVars, procVars, histVars
<1>3. CASE ReloadConfig \/ SignalRestart
  BY <1>3 DEF ReloadConfig, SignalRestart, Suspend, wdVars, histVars
<1>4. CASE Restart \/ Crash
  BY <1>4 DEF Restart, Crash, Exit, ProcessGone
<1>5. CASE Start
  BY <1>5 DEF Start, Boot, procVars, histVars
<1>6. CASE \E c \in Configs : ForeignCommit(c)
  BY <1>6 DEF ForeignCommit, CommitConfig, procVars
<1>7. CASE \E a \in Anomalies : CooldownOver(a)
  BY <1>7 DEF CooldownOver, wdVars, histVars
<1>8. CASE ProposalAges \/ WorldChanges
  BY <1>8 DEF ProposalAges, WorldChanges, wdVars, procVars, histVars
<1>9. CASE UNCHANGED loopVars
  BY <1>9 DEF loopVars, wdVars, procVars, histVars
<1> QED
  BY <1>1, <1>2, <1>3, <1>4, <1>5, <1>6, <1>7, <1>8, <1>9 DEF LoopNext

\* The checkpoint that a high-risk action relies on is the export that the
\* loop made for it; only a foreign commit sets it apart from the
\* configuration in force.
LEMMA RecoverableStep ==
  ASSUME LoopTypeOK, WDTypeOK, ExportMarked, Recoverable, [LoopNext]_loopVars
  PROVE  ExportMarked' /\ Recoverable'
<1> USE DEF ExportMarked, Recoverable
<1>0. (phase = "exporting" => loop = "export") /\ checkpoint \in Checkpoints
  BY DEF LoopTypeOK, WDTypeOK
<1>1. CASE LoopStep
  <2>1. CASE SafeModeTick \/ CountTick
    BY <1>0, <2>1 DEF SafeModeTick, CountTick, InLoop, RecordHealthCheckSuccess,
       wdVars, histVars
  <2>2. CASE QuietTick \/ \E a \in Anomalies : AnomalyTick(a)
    BY <1>0, <2>2 DEF QuietTick, AnomalyTick, InLoop, CommitConfig
  <2>3. ASSUME NEW act \in Actions, Decide(act)
        PROVE  ExportMarked' /\ Recoverable'
    <3>1. loop = "decide" /\ UNCHANGED << phase, checkpoint >>
      BY <2>3 DEF Decide, wdVars
    <3>2. loop' = "execute" =>
            job'.path = "fallback" \/ job'.action \notin HighRisk
      BY <2>3 DEF Decide, ChooseConfident, ChooseGated, ChooseFallback,
         LoopTypeOK, Jobs
    <3> QED
      BY <1>0, <3>1, <3>2
  <2>4. CASE BeginCheckpoint \/ NoCheckpoint
    BY <1>0, <2>4 DEF BeginCheckpoint, NoCheckpoint, InLoop, ExportBegin,
       Checkpoints, wdVars
  <2>5. CASE EndCheckpoint
    <3>1. /\ loop = "export" /\ loop' = "execute" /\ phase = "exporting"
          /\ phase' = "idle" /\ UNCHANGED << config, outdated >>
      BY <2>5 DEF EndCheckpoint, InLoop, ExportEnd, histVars
    <3>2. CASE UNCHANGED checkpoint
      BY <3>1, <3>2
    <3>3. ASSUME NEW c \in Mixed(checkpoint.exported, config),
                 checkpoint' = [checkpoint EXCEPT !.kind = "uci", !.exported = c]
          PROVE  ExportMarked' /\ Recoverable'
      <4>1. ASSUME ~outdated PROVE c = config
        <5>1. checkpoint.exported = config
          BY <3>1, <4>1
        <5>2. c = [managed |-> config.managed, other |-> config.other]
          BY <3>3, <5>1 DEF Mixed
        <5> QED
          BY <5>2 DEF WDTypeOK, Configs
      <4>2. checkpoint'.kind = "uci" /\ checkpoint'.exported = c
        BY <1>0, <3>3 DEF Checkpoints
      <4> QED
        BY <3>1, <4>1, <4>2
    <3> QED
      BY <2>5, <3>2, <3>3 DEF EndCheckpoint, ExportEnd
  <2>6. CASE \E ok \in BOOLEAN : ExecuteAction(ok)
    BY <1>0, <2>6 DEF ExecuteAction, CommitConfig
  <2>7. CASE QueuePending \/ QueueWritten
    BY <1>0, <2>7 DEF QueuePending, QueueWritten, InLoop, wdVars
  <2>8. CASE BeginRollback \/ EndRollback
    BY <1>0, <2>8 DEF BeginRollback, EndRollback, InLoop, RollbackRestore,
       RollbackFinish
  <2> QED
    BY <1>1, <2>1, <2>2, <2>3, <2>4, <2>5, <2>6, <2>7, <2>8 DEF LoopStep
<1>2. CASE HandlerStep
  BY <1>2 DEF HandlerStep, ApproveRead, ApproveExpired, ApproveExecute,
     ApproveRemove, CommitConfig, wdVars, procVars, histVars
<1>3. CASE ReloadConfig \/ SignalRestart
  BY <1>3 DEF ReloadConfig, SignalRestart, Suspend, wdVars, histVars
<1>4. CASE Restart \/ Crash
  BY <1>4 DEF Restart, Crash, Exit, ProcessGone
<1>5. CASE Start
  BY <1>5 DEF Start, Boot, procVars, histVars
<1>6. CASE \E c \in Configs : ForeignCommit(c)
  BY <1>6 DEF ForeignCommit, CommitConfig, procVars
<1>7. CASE \E a \in Anomalies : CooldownOver(a)
  BY <1>7 DEF CooldownOver, wdVars, histVars
<1>8. CASE ProposalAges \/ WorldChanges
  BY <1>8 DEF ProposalAges, WorldChanges, wdVars, procVars, histVars
<1>9. CASE UNCHANGED loopVars
  BY <1>9 DEF loopVars, wdVars, procVars, histVars
<1> QED
  BY <1>1, <1>2, <1>3, <1>4, <1>5, <1>6, <1>7, <1>8, <1>9 DEF LoopNext

\* What the steps that touch neither the file, the handler nor the count of
\* executions leave as it was.
LEMMA ApprovalStutter ==
  ASSUME Tracked, ApprovedOnce,
         UNCHANGED << pending, handler, executions, unremoved, proposed >>,
         (loop' = "queueWrite") = (loop = "queueWrite")
  PROVE  Tracked' /\ ApprovedOnce'
<1>1. Written' = Written
  BY DEF Written
<1> QED
  BY <1>1 DEF Tracked, ApprovedOnce

\* When the handler is done, or its process gone, the file is gone or as it
\* was: what it still holds was counted.
LEMMA LeftInFile ==
  ASSUME LoopTypeOK, Tracked, ApprovedOnce,
         handler'.pc = "idle", pending' \in {pending, NoPending},
         unremoved' = StillInFile, UNCHANGED executions,
         Written \in Int, Written' \in Int, Written <= Written'
  PROVE  Tracked' /\ ApprovedOnce'
<1>0. executions \in [Proposals -> Nat] /\ unremoved \in [Proposals -> Nat]
  BY DEF LoopTypeOK
<1>1. \A i \in Proposals : i \in Int
  BY DEF Proposals
<1>2. \A i \in Proposals :
        unremoved'[i] = IF /\ handler.pc = "executed" /\ handler.id = i
                           /\ pending'.kind = "full" /\ pending'.id = i
                        THEN unremoved[i] + 1 ELSE unremoved[i]
  BY <1>0 DEF StillInFile
<1>3. ASSUME NEW i \in Proposals
      PROVE  /\ executions'[i] <= 1 + unremoved'[i]
             /\ executions'[i] > 0 => i <= Written'
             /\ pending'.kind = "full" /\ pending'.id = i
                  => executions'[i] <= unremoved'[i]
  <2>1. executions[i] \in Nat /\ unremoved[i] \in Nat
    BY <1>0
  <2>2. executions[i] <= 1 + unremoved[i]
    BY DEF ApprovedOnce
  <2>3. executions[i] > 0 => i <= Written'
    BY <1>1, <2>1 DEF Tracked
  <2>4. ASSUME pending'.kind = "full", pending'.id = i
        PROVE  executions[i] <= unremoved'[i]
    <3>1. pending' = pending
      BY <2>4 DEF NoPending
    <3>2. executions[i] <= unremoved[i]
            \/ (handler.pc = "executed" /\ handler.id = i)
      BY <2>4, <3>1 DEF Tracked
    <3> QED
      BY <1>2, <2>1, <2>2, <2>4, <3>2
  <2>5. executions[i] <= 1 + unremoved'[i]
    BY <1>2, <2>1, <2>2
  <2> QED
    BY <2>3, <2>4, <2>5
<1>4. pending'.kind = "full" => pending'.id \in 1 .. Written'
  BY DEF Tracked, NoPending
<1> QED
  BY <1>3, <1>4 DEF Tracked, ApprovedOnce

\* A proposal is executed only while no executed handler is between its
\* execution and the removal of the file, and then for the first time.
LEMMA ApprovalStep ==
  ASSUME LoopTypeOK, Treatment, Tracked, ApprovedOnce, [LoopNext]_loopVars
  PROVE  Tracked' /\ ApprovedOnce'
<1>0. /\ proposed \in 0 .. MaxProposals /\ MaxProposals \in Nat
      /\ executions \in [Proposals -> Nat] /\ unremoved \in [Proposals -> Nat]
      /\ pending \in Pendings /\ handler \in Handlers
  BY LoopAssumption DEF LoopTypeOK
<1>a. /\ pending.kind = "full" => pending.id \in Proposals
      /\ handler.pc # "idle" => handler.id \in Proposals
  BY HeldProposals
<1>1. CASE LoopStep
  <2>1. CASE QueuePending
    <3>1. /\ loop' = "queueWrite" /\ loop = "queue" /\ proposed' = proposed + 1
          /\ pending'.kind = "torn"
          /\ UNCHANGED << handler, executions, unremoved >>
      BY <2>1 DEF QueuePending, InLoop, NoPending
    <3>2. Written' = Written
      BY <1>0, <3>1 DEF Written
    <3> QED
      BY <3>1, <3>2 DEF Tracked, ApprovedOnce
  <2>2. CASE QueueWritten
    <3>1. /\ loop = "queueWrite" /\ loop' # "queueWrite" /\ proposed' = proposed
          /\ pending'.kind = "full" /\ pending'.id = proposed
          /\ UNCHANGED << handler, executions, unremoved >>
      BY <2>2 DEF QueueWritten, histVars
    <3>2. Written = proposed - 1 /\ Written' = proposed
      BY <3>1 DEF Written
    <3>3. handler'.pc # "idle" => handler'.id \in 1 .. Written'
      BY <1>0, <3>1, <3>2 DEF Tracked
    <3>4. \A i \in Proposals : executions'[i] > 0 => i <= Written' /\ i # proposed
      BY <1>0, <3>1, <3>2 DEF Tracked, Proposals
    <3>6. \A i \in Proposals :
            pending'.id = i => executions'[i] <= unremoved'[i]
      BY <1>0, <3>1, <3>4
    <3>5. proposed \in 1 .. Written'
      BY <1>0, <3>1, <3>2 DEF Treatment
    <3> QED
      BY <3>1, <3>3, <3>4, <3>5, <3>6 DEF Tracked, ApprovedOnce
  <2>3. CASE \/ SafeModeTick \/ CountTick \/ QuietTick
             \/ \E a \in Anomalies : AnomalyTick(a)
    <3>1. /\ UNCHANGED << pending, handler, executions, unremoved, proposed >>
          /\ loop # "queueWrite" /\ loop' # "queueWrite"
      BY <2>3 DEF SafeModeTick, CountTick, QuietTick, AnomalyTick, InLoop,
         histVars
    <3> QED
      BY <3>1, ApprovalStutter
  <2>4. CASE \E act \in Actions : Decide(act)
    <3>1. /\ UNCHANGED << pending, handler, executions, unremoved, proposed >>
          /\ loop # "queueWrite" /\ loop' # "queueWrite"
      BY <2>4 DEF Decide, ChooseConfident, ChooseGated, ChooseFallback, histVars
    <3> QED
      BY <3>1, ApprovalStutter
  <2>5. CASE \/ BeginCheckpoint \/ NoCheckpoint \/ EndCheckpoint
             \/ BeginRollback \/ EndRollback
             \/ \E ok \in BOOLEAN : ExecuteAction(ok)
    <3>1. /\ UNCHANGED << pending, handler, executions, unremoved, proposed >>
          /\ loop # "queueWrite" /\ loop' # "queueWrite"
      BY <2>5 DEF BeginCheckpoint, NoCheckpoint, EndCheckpoint, BeginRollback,
         EndRollback, ExecuteAction, InLoop, histVars
    <3> QED
      BY <3>1, ApprovalStutter
  <2> QED
    BY <1>1, <2>1, <2>2, <2>3, <2>4, <2>5 DEF LoopStep
<1>2. CASE HandlerStep
  <2>0. ASSUME UNCHANGED << loop, proposed >> PROVE Written' = Written
    BY <2>0 DEF Written
  <2>1. CASE ApproveRead
    <3>1. /\ pending.kind = "full" /\ handler.pc = "idle"
          /\ handler' = [pc |-> "approved", id |-> pending.id]
          /\ UNCHANGED << loop, pending, proposed, executions, unremoved >>
      BY <2>1 DEF ApproveRead, histVars
    <3> QED
      BY <2>0, <3>1 DEF Tracked, ApprovedOnce
  <2>2. CASE ApproveExpired
    <3>1. /\ pending'.kind = "none"
          /\ UNCHANGED << loop, handler, proposed, executions, unremoved >>
      BY <2>2 DEF ApproveExpired, NoPending, procVars, histVars
    <3> QED
      BY <2>0, <3>1 DEF Tracked, ApprovedOnce
  <2>3. CASE ApproveExecute
    <3>1. /\ handler.pc = "approved"
          /\ handler'.pc = "executed" /\ handler'.id = handler.id
          /\ executions' = [executions EXCEPT ![handler.id] = @ + 1]
          /\ UNCHANGED << loop, pending, proposed, unremoved >>
      BY <1>0, <2>3 DEF ApproveExecute, Handlers
    <3>2. handler.id \in Proposals /\ handler.id \in 1 .. Written
      BY <1>a, <3>1 DEF Tracked
    <3>3. executions[handler.id] <= unremoved[handler.id]
      BY <3>1, <3>2 DEF Tracked
    <3>4. \A i \in Proposals :
            executions'[i] = IF i = handler.id THEN executions[i] + 1
                             ELSE executions[i]
      BY <1>0, <3>1
    <3>5. ApprovedOnce'
      BY <1>0, <3>1, <3>3, <3>4 DEF ApprovedOnce
    <3>6. Tracked'
      <4>1. Written' = Written
        BY <2>0, <3>1
      <4>2. ASSUME NEW i \in Proposals, executions'[i] > 0 PROVE i <= Written
        <5>1. CASE i = handler.id
          BY <3>2, <5>1
        <5>2. CASE i # handler.id
          BY <3>4, <4>2, <5>2 DEF Tracked
        <5> QED
          BY <5>1, <5>2
      <4>3. ASSUME NEW i \in Proposals, pending'.kind = "full", pending'.id = i
            PROVE  executions'[i] <= unremoved'[i] \/ handler'.id = i
        BY <1>0, <3>1, <3>2, <3>4, <4>3 DEF Tracked
      <4> QED
        BY <3>1, <3>2, <4>1, <4>2, <4>3 DEF Tracked
    <3> QED
      BY <3>5, <3>6
  <2>4. CASE ApproveRemove
    <3>1. /\ pending' \in {pending, NoPending} /\ handler'.pc = "idle"
          /\ unremoved' = StillInFile
          /\ UNCHANGED << loop, proposed, executions >>
      BY <2>4 DEF ApproveRemove, IdleHandler
    <3>2. Written' = Written
      BY <2>0, <3>1
    <3>3. Written \in Int
      BY <1>0 DEF Written
    <3> QED
      BY <3>1, <3>2, <3>3, LeftInFile
  <2> QED
    BY <1>2, <2>1, <2>2, <2>3, <2>4 DEF HandlerStep
<1>3. CASE Restart \/ Crash
  <2>1. /\ loop' = "select" /\ handler'.pc = "idle"
        /\ pending' \in {pending, NoPending}
        /\ unremoved' = StillInFile
        /\ UNCHANGED << proposed, executions >>
    BY <1>3 DEF Restart, Crash, ProcessGone, IdleHandler
  <2>2. Written \in Int /\ Written' \in Int /\ Written <= Written'
    BY <1>0, <2>1 DEF Written
  <2> QED
    BY <2>1, <2>2, LeftInFile
<1>4. CASE ProposalAges
  <2>1. /\ pending'.kind = pending.kind /\ pending'.id = pending.id
        /\ UNCHANGED << loop, handler, proposed, executions, unremoved >>
    BY <1>0, <1>4 DEF ProposalAges, Pendings, procVars, histVars
  <2> QED
    BY <2>1 DEF Tracked, ApprovedOnce, Written
<1>5. CASE \/ ReloadConfig \/ SignalRestart \/ Start \/ WorldChanges
           \/ \E c \in Configs : ForeignCommit(c)
           \/ \E a \in Anomalies : CooldownOver(a)
           \/ UNCHANGED loopVars
  <2>1. UNCHANGED << loop, pending, handler, executions, unremoved, proposed >>
    BY <1>5 DEF ReloadConfig, SignalRestart, Start, WorldChanges, ForeignCommit,
       CooldownOver, loopVars, procVars, histVars
  <2> QED
    BY <2>1, ApprovalStutter
<1> QED
  BY <1>1, <1>2, <1>3, <1>4, <1>5 DEF LoopNext

\* The loop's invariant holds of every behaviour.
LEMMA LoopInvStep == LoopInv /\ [LoopNext]_loopVars => LoopInv'
<1> SUFFICES ASSUME LoopInv, [LoopNext]_loopVars PROVE LoopInv'
  OBVIOUS
<1>1. WDInv' /\ WDTypeOK'
  BY LoopWDStep DEF LoopInv, WDInv
<1>2. LoopTypeOK'
  BY <1>1, LoopTypeStep DEF LoopInv
<1>3. Treatment' /\ HealsOnlyWhenAllowed'
  BY AllowedStep DEF LoopInv
<1>4. ExportMarked' /\ Recoverable'
  BY RecoverableStep DEF LoopInv, LoopTypeOK
<1>5. Tracked' /\ ApprovedOnce'
  BY ApprovalStep DEF LoopInv
<1> QED
  BY <1>1, <1>2, <1>3, <1>4, <1>5 DEF LoopInv

LEMMA LoopInvariance == LoopSpec => []LoopInv
  BY LoopInitInv, LoopInvStep, PTL DEF LoopSpec

-------------------------------------------------------------------------------

\* Types of the loop's state, and the watchdog's phase agrees with the
\* program counter of the main loop.
THEOREM LoopTypes == LoopSpec => []LoopTypeOK
<1>1. LoopInv => LoopTypeOK
  BY DEF LoopInv
<1> QED
  BY <1>1, LoopInvariance, PTL

\* No anomaly is treated in safe mode outside the window between a reload
\* and its restart: the check at the top of the tick covers the whole tick.
THEOREM HealingIsAllowed == LoopSpec => []HealsOnlyWhenAllowed
<1>1. LoopInv => HealsOnlyWhenAllowed
  BY DEF LoopInv
<1> QED
  BY <1>1, LoopInvariance, PTL

\* A high-risk action on a skill or AI answer runs on a checkpoint from which
\* ExecuteRollback restores the configuration in force.
THEOREM GatedChangesAreRecoverable == LoopSpec => []GatedChangeIsRecoverable
<1>1. LoopInv => GatedChangeIsRecoverable
  <2> SUFFICES ASSUME LoopInv PROVE GatedChangeIsRecoverable
    OBVIOUS
  <2>1. ASSUME checkpoint.kind = "uci"
        PROVE  RolledBack(checkpoint, TRUE) = {checkpoint.exported}
    BY <2>1 DEF RolledBack
  <2> QED
    BY <2>1 DEF LoopInv, Recoverable, GatedChangeIsRecoverable
<1> QED
  BY <1>1, LoopInvariance, PTL

\* An approved proposal runs once, and once more for each execution after
\* which the file still held it.
THEOREM ProposalsRunOnce == LoopSpec => []ApprovedOnce
<1>1. LoopInv => ApprovedOnce
  BY DEF LoopInv
<1> QED
  BY <1>1, LoopInvariance, PTL

\* What the watchdog promises about safe mode holds in the whole system.
THEOREM SystemSafeMode ==
  LoopSpec => [](SafeModeDurable /\ HealingIsEarned /\ CountIsExact)
<1>1. WDInv => SafeModeDurable /\ HealingIsEarned /\ CountIsExact
  BY DEF WDInv
<1> QED
  BY <1>1, LoopWDInvariance, PTL

-------------------------------------------------------------------------------
(* The promise of SafeHealing.  Debt, which the mapping takes from the     *)
(* count in memory, is what is owed (CountIsExact); a treatment is known   *)
(* to begin outside safe mode from the guard of its tick; and a start out  *)
(* of safe mode with checks owed is excused by SafeModeDurable.            *)

LEMMA DebtIsOwed == ASSUME WDInv PROVE Debt = owed
  BY ConstantsAssumption DEF WDInv, WDTypeOK, CountIsExact, Debt

LEMMA DebtStaysOwed == ASSUME WDInv' PROVE Debt' = owed'
<1>1. Debt' = IF up' /\ safeModeActive' THEN ExitChecks - successfulChecks' ELSE owed'
  BY DEF Debt
<1>2. ExitChecks \in Int /\ owed' \in Int /\ successfulChecks' \in Int
  BY ConstantsAssumption DEF WDInv, WDTypeOK
<1>3. CASE up' /\ safeModeActive'
  <2>1. owed' + successfulChecks' = ExitChecks
    BY <1>3, Zenon DEF WDInv, CountIsExact
  <2>2. Debt' = ExitChecks - successfulChecks'
    BY <1>1, <1>3, Zenon
  <2>3. ExitChecks - successfulChecks' = owed'
    <3>1. \A a, b, c \in Int : a + b = c => c - b = a
      OBVIOUS
    <3> QED
      BY <1>2, <2>1, <3>1, Zenon
  <2> QED
    BY <2>2, <2>3, Zenon
<1>4. CASE ~ (up' /\ safeModeActive')
  BY <1>1, <1>4, Zenon
<1> QED
  BY <1>3, <1>4

LEMMA HealInit == ASSUME LoopInit PROVE SH!Init
<1>1. WDInv
  BY WDInit DEF LoopInit
<1>2. Debt = owed
  BY <1>1, DebtIsOwed
<1> QED
  BY <1>2 DEF LoopInit, Init, SH!Init, Mode, Treating

\* Steps that leave the mode and the treatment alone.
LEMMA HealStutter ==
  ASSUME UNCHANGED << up, safeModeActive, successfulChecks, suspended, owed, saveLost >>,
         Treating' = Treating
  PROVE  UNCHANGED SH!healVars
  BY DEF SH!healVars, Mode, Debt

\* Steps that only begin or end a treatment.
LEMMA HealTreat ==
  ASSUME UNCHANGED << up, safeModeActive, successfulChecks, suspended, owed, saveLost >>,
         ~Treating, Treating', up, ~IsSafeMode
  PROVE  SH!Treat
  BY DEF SH!Treat, Mode, Debt, IsSafeMode

LEMMA HealConclude ==
  ASSUME UNCHANGED << up, safeModeActive, successfulChecks, suspended, owed, saveLost >>,
         Treating, ~Treating'
  PROVE  SH!Conclude
  BY DEF SH!Conclude, Mode, Debt

LEMMA LoopStepHeals ==
  ASSUME WDInv, WDInv', LoopStep PROVE SH!Next \/ UNCHANGED SH!healVars
<1> DEFINE core == << up, safeModeActive, successfulChecks, suspended, owed, saveLost >>
<1>0. Debt = owed /\ Debt' = owed'
  BY DebtIsOwed, DebtStaysOwed
<1>a. CASE SafeModeTick
  <2>1. UNCHANGED core /\ ~Treating /\ ~Treating'
    BY <1>a DEF SafeModeTick, InLoop, wdVars, Treating
  <2>2. Treating' = Treating
    BY <2>1 DEF Treating
  <2> QED
    BY <2>1, <2>2, HealStutter
<1>1. CASE CountTick
  <2>1. /\ up /\ safeModeActive /\ ~Treating /\ ~Treating'
        /\ owed' = owed - 1 /\ UNCHANGED << up, suspended >>
        /\ \/ /\ successfulChecks + 1 >= ExitChecks /\ ~safeModeActive'
              /\ saveLost' \in BOOLEAN
           \/ /\ successfulChecks + 1 < ExitChecks
              /\ UNCHANGED << safeModeActive, saveLost >>
    <3>1. up /\ safeModeActive /\ ~Treating /\ ~Treating'
      BY <1>1 DEF CountTick, InLoop, RecordHealthCheckSuccess, Treating
    <3>2. RecordHealthCheckSuccess
      BY <1>1 DEF CountTick
    <3>3. owed' = owed - 1 /\ UNCHANGED << up, suspended >>
      BY <3>2 DEF RecordHealthCheckSuccess
    <3>4. CASE successfulChecks + 1 >= ExitChecks
      BY <3>1, <3>2, <3>3, <3>4 DEF RecordHealthCheckSuccess, SaveCheckpoint
    <3>5. CASE ~ (successfulChecks + 1 >= ExitChecks)
      <4>1. successfulChecks + 1 < ExitChecks
        BY <3>5, ConstantsAssumption DEF WDInv, WDTypeOK
      <4> QED
        BY <3>1, <3>2, <3>3, <3>5, <4>1 DEF RecordHealthCheckSuccess
    <3> QED
      BY <3>4, <3>5
  <2>2. owed + successfulChecks = ExitChecks /\ successfulChecks \in 0 .. ExitChecks - 1
        /\ owed \in Int
    BY <2>1 DEF WDInv, WDTypeOK, CountIsExact
  <2>3. SH!Check
    <3>1. CASE ~safeModeActive'
      <4>1. owed - 1 = 0
        <5>1. successfulChecks + 1 >= ExitChecks
          BY <2>1, <3>1, Zenon
        <5> QED
          BY <2>2, <5>1, ConstantsAssumption
      <4>2. Debt' = 0 /\ Debt' = Debt - 1
        BY <1>0, <2>1, <4>1
      <4>3. Mode = "safe" /\ Mode' = "normal" /\ saveLost' \in BOOLEAN
        BY <2>1, <3>1 DEF Mode
      <4>4. ~Treating /\ UNCHANGED << suspended, Treating >>
        BY <2>1 DEF Treating
      <4> QED
        BY <4>2, <4>3, <4>4 DEF SH!Check
    <3>2. CASE safeModeActive'
      <4>1. ~Treating /\ UNCHANGED << suspended, Treating, saveLost >>
        BY <2>1, <3>2 DEF Treating
      <4>2. Mode = "safe" /\ Mode' = "safe"
        BY <2>1, <3>2 DEF Mode
      <4>3. Debt' = Debt - 1 /\ Debt' # 0
        BY <1>0, <2>1, <2>2, <3>2, ConstantsAssumption
      <4> QED
        BY <4>1, <4>2, <4>3 DEF SH!Check
    <3> QED
      BY <3>1, <3>2
  <2> QED
    BY <2>3 DEF SH!Next
<1>2. CASE QuietTick
  <2>1. UNCHANGED core /\ loop' = loop
    BY <1>2 DEF QuietTick, InLoop, CommitConfig
  <2> QED
    BY <2>1, HealStutter DEF Treating
<1>3. ASSUME NEW a \in Anomalies, AnomalyTick(a) PROVE SH!Next
  <2>1. UNCHANGED core /\ ~Treating /\ Treating' /\ up /\ ~IsSafeMode
    BY <1>3 DEF AnomalyTick, InLoop, CommitConfig, Treating
  <2> QED
    BY <2>1, HealTreat DEF SH!Next
<1>4. ASSUME NEW act \in Actions, Decide(act) PROVE UNCHANGED SH!healVars
  <2>1. UNCHANGED core /\ Treating /\ Treating'
    BY <1>4 DEF Decide, wdVars, ChooseConfident, ChooseGated, ChooseFallback,
       Treating
  <2> QED
    BY <2>1, HealStutter
<1>5. CASE BeginCheckpoint \/ NoCheckpoint \/ EndCheckpoint \/ QueuePending \/ BeginRollback
  <2>1. UNCHANGED core /\ Treating /\ Treating'
    BY <1>5 DEF Treating, BeginCheckpoint, NoCheckpoint, EndCheckpoint, QueuePending, BeginRollback,
       InLoop, wdVars, ExportBegin, ExportEnd, RollbackRestore
  <2> QED
    BY <2>1, HealStutter
<1>6. ASSUME NEW ok \in BOOLEAN, ExecuteAction(ok) \/ QueueWritten
      PROVE  SH!Next \/ UNCHANGED SH!healVars
  <2>1. UNCHANGED core /\ Treating
    BY <1>6 DEF ExecuteAction, QueueWritten, CommitConfig, wdVars, Treating
  <2>2. CASE ~Treating'
    BY <2>1, <2>2, HealConclude DEF SH!Next
  <2>3. CASE Treating'
    BY <2>1, <2>3, HealStutter
  <2> QED
    BY <2>2, <2>3
<1>7. CASE EndRollback
  <2>1. /\ up /\ up' /\ safeModeActive' /\ Treating /\ ~Treating'
        /\ owed' = ExitChecks /\ saveLost' \in BOOLEAN /\ UNCHANGED suspended
    BY <1>7 DEF EndRollback, InLoop, RollbackFinish, SaveCheckpoint, Treating
  <2>2. SH!FallBack
    BY <1>0, <2>1 DEF SH!FallBack, Mode
  <2> QED
    BY <2>2 DEF SH!Next
<1> QED
  BY <1>a, <1>1, <1>2, <1>3, <1>4, <1>5, <1>6, <1>7 DEF LoopStep

LEMMA StepHeals ==
  ASSUME WDInv, WDInv', Treatment, [LoopNext]_loopVars
  PROVE  SH!Next \/ UNCHANGED SH!healVars
<1> DEFINE core == << up, safeModeActive, successfulChecks, suspended, owed, saveLost >>
<1>0. Debt = owed /\ Debt' = owed'
  BY DebtIsOwed, DebtStaysOwed
<1>1. CASE LoopStep
  BY <1>1, LoopStepHeals
<1>2. CASE ReloadConfig
  <2>1. /\ up /\ suspended' /\ suspended' = TRUE
        /\ UNCHANGED << up, safeModeActive, owed, saveLost, loop >>
    BY <1>2 DEF ReloadConfig, Suspend
  <2>2. SH!Leave
    BY <1>0, <2>1 DEF SH!Leave, Mode, Treating
  <2> QED
    BY <2>2 DEF SH!Next
<1>3. CASE Restart \/ Crash
  <2>1. /\ up /\ ~up' /\ suspended' = FALSE /\ loop' = "select"
        /\ UNCHANGED << owed, saveLost >>
    BY <1>3 DEF Restart, Crash, Exit, ProcessGone
  <2>2. SH!End
    BY <1>0, <2>1 DEF SH!End, Mode, Treating
  <2> QED
    BY <2>2 DEF SH!Next
<1>4. CASE Start
  <2>1. /\ ~up /\ up' /\ suspended' = FALSE /\ loop' = loop /\ saveLost' = saveLost
        /\ owed' = IF owed > 0 \/ BootsSafe(checkpoint) THEN ExitChecks ELSE 0
        /\ safeModeActive' = IF Loads(checkpoint) THEN checkpoint.safe ELSE TRUE
    BY <1>4 DEF Start, Boot, procVars
  <2>2. /\ owed \in 0 .. ExitChecks
        /\ saveLost \in BOOLEAN /\ checkpoint.safe \in BOOLEAN
    BY DEF WDInv, WDTypeOK, Checkpoints
  <2>3. CASE safeModeActive'
    <3>1. BootsSafe(checkpoint)
      BY <2>1, <2>3 DEF BootsSafe
    <3>2. SH!StartSafe
      BY <1>0, <2>1, <2>2, <2>3, <3>1 DEF SH!StartSafe, Mode, Treating
    <3> QED
      BY <3>2 DEF SH!Next
  <2>4. CASE ~safeModeActive'
    <3>1. ~BootsSafe(checkpoint)
      BY <2>1, <2>2, <2>4 DEF BootsSafe
    <3>2. owed = 0 \/ saveLost
      BY <2>2, <3>1, ConstantsAssumption DEF WDInv, SafeModeDurable
    <3>3. SH!StartNormal
      BY <1>0, <2>1, <2>2, <2>4, <3>2 DEF SH!StartNormal, Mode, Treating
    <3> QED
      BY <3>3 DEF SH!Next
  <2> QED
    BY <2>3, <2>4
<1>5. CASE \/ HandlerStep \/ SignalRestart \/ ProposalAges \/ WorldChanges
           \/ \E c \in Configs : ForeignCommit(c)
           \/ \E a \in Anomalies : CooldownOver(a)
           \/ UNCHANGED loopVars
  <2>1. UNCHANGED core /\ loop' = loop
    BY <1>5 DEF HandlerStep, ApproveRead, ApproveExpired, ApproveExecute, ApproveRemove,
       SignalRestart, ProposalAges, WorldChanges, ForeignCommit, CooldownOver, CommitConfig,
       wdVars, procVars, loopVars
  <2> QED
    BY <2>1, HealStutter DEF Treating
<1> QED
  BY <1>1, <1>2, <1>3, <1>4, <1>5 DEF LoopNext

\* The main loop, the approval handler, reloads, crashes and restarts together
\* keep the promise about safe mode: anomalies are treated outside it, it costs
\* its checks, and it outlives the process.
THEOREM LoopImplementsSafeHealing == LoopSpec => ImplementsSafeHealing
<1>1. LoopInit => SH!Init
  BY HealInit
<1>2. LoopInv /\ LoopInv' /\ [LoopNext]_loopVars => [SH!Next]_(SH!healVars)
  BY StepHeals DEF LoopInv
<1> QED
  BY <1>1, <1>2, LoopInvariance, PTL DEF LoopSpec, ImplementsSafeHealing, SH!Spec

\* Within one process safe mode ends only by a check that pays the last of its
\* debt, counted while the loop treats nothing, whatever reload has suspended
\* the watchdog since the tick found safe mode on.
THEOREM SafeModeEndsByLastCheck ==
  LoopSpec =>
    [][up /\ safeModeActive /\ up' /\ ~safeModeActive' =>
         ~Treating /\ successfulChecks = ExitChecks - 1]_loopVars
<1> DEFINE Ends == up /\ safeModeActive /\ up' /\ ~safeModeActive'
           Counted == ~Treating /\ successfulChecks = ExitChecks - 1
<1>1. ASSUME LoopInv, LoopInv', [LoopNext]_loopVars PROVE Ends => Counted
  <2> SUFFICES ASSUME Ends PROVE Counted
    OBVIOUS
  <2>1. Mode = "safe" /\ Mode' = "normal"
    BY DEF Mode
  <2>2. SH!Next \/ UNCHANGED SH!healVars
    BY <1>1, StepHeals DEF LoopInv
  <2>3. SH!Check
    BY <2>1, <2>2 DEF SH!Next, SH!healVars, SH!StartSafe, SH!StartNormal, SH!End, SH!Leave,
       SH!Treat, SH!Conclude, SH!FallBack
  <2>4. ~Treating /\ Debt' = Debt - 1 /\ Debt' = 0
    BY <2>1, <2>3 DEF SH!Check
  <2>5. Debt = ExitChecks - successfulChecks /\ successfulChecks \in Int /\ ExitChecks \in Int
    BY <1>1, ConstantsAssumption DEF Debt, LoopInv, WDInv, WDTypeOK
  <2> QED
    BY <2>4, <2>5
<1>2. LoopInv /\ LoopInv' /\ [LoopNext]_loopVars => [Ends => Counted]_loopVars
  BY <1>1
<1> QED
  BY <1>2, LoopInvariance, PTL DEF LoopSpec
===============================================================================
