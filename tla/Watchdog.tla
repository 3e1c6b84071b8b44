------------------------------- MODULE Watchdog -------------------------------
(***************************************************************************)
(* The watchdog of the Go agent (watchdog/watchdog.go): safe mode, its     *)
(* exit after five recorded health checks, the checkpoint file, and the    *)
(* rollback of the router's UCI configuration.                             *)
(*                                                                         *)
(* The checkpoint file has two writers.  The watchdog replaces it          *)
(* atomically (temporary file and rename) by a JSON document that holds    *)
(* its own state and a hard-coded snapshot of three default settings; the  *)
(* main loop truncates it and streams `uci export` into it before a        *)
(* high-risk action (cmd/main.go, saveUCICheckpoint).  Both writers run on *)
(* the main goroutine, so at most one of them is between two steps;        *)
(* `phase' says which.                                                     *)
(*                                                                         *)
(* The configuration of the router is abstracted to two parts: `managed'   *)
(* (the three keys that the snapshot lists: WAN protocol and the two radio *)
(* switches) and `other' (everything else that `uci export' prints).       *)
(***************************************************************************)
EXTENDS Integers

CONSTANTS
  ManagedValues,   (* values of the three settings the JSON snapshot lists *)
  OtherValues,     (* values of the rest of the UCI configuration          *)
  DefaultManaged,  (* DHCP on the WAN and both radios enabled              *)
  ExitChecks       (* health checks that end safe mode: 5 in the code      *)

ASSUME ConstantsAssumption ==
  /\ DefaultManaged \in ManagedValues
  /\ OtherValues # {}
  /\ ExitChecks \in Nat \ {0}

VARIABLES
  up,               (* the agent process is running                        *)
  safeModeActive,   (* Watchdog.safeModeActive                             *)
  successfulChecks, (* Watchdog.successfulChecks                           *)
  suspended,        (* Watchdog.suspended                                  *)
  phase,            (* the multi-step operation in progress, if any        *)
  checkpoint,       (* contents of the checkpoint file                     *)
  config,           (* committed UCI configuration of the router           *)
  owed,             (* history: checks owed before healing may resume      *)
  saveLost          (* history: the last JSON write failed, error ignored  *)

wdVars == << up, safeModeActive, successfulChecks, suspended, phase,
             checkpoint, config, owed, saveLost >>

-------------------------------------------------------------------------------
(* Data.                                                                   *)

Configs == [managed : ManagedValues, other : OtherValues]

Phases == {"idle", "exporting", "rollback"}

\* "absent": no file; "json": written by the watchdog; "uci": a complete
\* export; "torn": the export was cut short (crash or command failure).
Checkpoints ==
  [kind : {"absent", "json", "uci", "torn"}, safe : BOOLEAN,
   checks : 0 .. ExitChecks - 1, exported : Configs]

\* saveCheckpointInternal and saveCheckpointWithConfig: the state goes into
\* the JSON document.  `exported' is meaningless there and keeps its value.
JSONCheckpoint(safe, checks) ==
  [checkpoint EXCEPT !.kind = "json", !.safe = safe, !.checks = checks]

\* LoadAndVerifyCheckpoint succeeds on a JSON document only: a UCI export,
\* whole or cut short, fails in json.Unmarshal.
Loads(file) == file.kind = "json"

\* Whether a process that starts from this file starts in safe mode.
BootsSafe(file) == Loads(file) => file.safe

\* What ExecuteRollback leaves as configuration.  A JSON snapshot lists the
\* three default settings only; a cut-short export is either refused by
\* `uci import' (then the same three defaults are set) or imports the
\* packages it still holds.  When the `uci' commands themselves fail (`works'
\* is false) nothing but the defaults can get committed: errors are ignored.
WithDefaults == [config EXCEPT !.managed = DefaultManaged]

Mixed(a, b) ==
  [managed : {a.managed, b.managed}, other : {a.other, b.other}]

RolledBack(file, works) ==
  CASE ~works                      -> {config, WithDefaults}
    [] works /\ file.kind = "uci"  -> {file.exported}
    [] works /\ file.kind = "torn" -> {WithDefaults} \cup Mixed(config, file.exported)
    [] OTHER                       -> {WithDefaults}

-------------------------------------------------------------------------------
(* Operations.                                                             *)

IsSafeMode == ~suspended /\ safeModeActive

\* Both wait for the mutex that ExecuteRollback holds until it returns.
Suspend ==
  /\ up /\ phase # "rollback"
  /\ suspended' = TRUE
  /\ UNCHANGED << up, safeModeActive, successfulChecks, phase, checkpoint,
                  config, owed, saveLost >>

Resume ==
  /\ up /\ phase # "rollback"
  /\ suspended' = FALSE
  /\ UNCHANGED << up, safeModeActive, successfulChecks, phase, checkpoint,
                  config, owed, saveLost >>

\* The JSON write of the given state; its error is ignored by every caller.
SaveCheckpoint(safe, checks) ==
  \/ /\ checkpoint' = JSONCheckpoint(safe, checks)
     /\ saveLost' = FALSE
  \/ /\ UNCHANGED checkpoint
     /\ saveLost' = TRUE

\* One call of RecordHealthCheckSuccess while safe mode is active.
RecordHealthCheckSuccess ==
  /\ up /\ phase = "idle"
  /\ safeModeActive
  /\ owed' = owed - 1
  /\ IF successfulChecks + 1 >= ExitChecks
     THEN /\ safeModeActive' = FALSE
          /\ successfulChecks' = 0
          /\ SaveCheckpoint(FALSE, 0)
     ELSE /\ successfulChecks' = successfulChecks + 1
          /\ UNCHANGED << safeModeActive, checkpoint, saveLost >>
  /\ UNCHANGED << up, suspended, phase, config >>

\* saveUCICheckpoint opens the file with O_TRUNC ...
ExportBegin ==
  /\ up /\ phase = "idle"
  /\ phase' = "exporting"
  /\ checkpoint' = [checkpoint EXCEPT !.kind = "torn", !.exported = config]
  /\ UNCHANGED << up, safeModeActive, successfulChecks, suspended, config,
                  owed, saveLost >>

\* ... and `uci export' fills it, package by package while others commit, or
\* fails and leaves what it had printed.
ExportEnd ==
  /\ up /\ phase = "exporting"
  /\ phase' = "idle"
  /\ \/ \E c \in Mixed(checkpoint.exported, config) :
          checkpoint' = [checkpoint EXCEPT !.kind = "uci", !.exported = c]
     \/ UNCHANGED checkpoint
  /\ UNCHANGED << up, safeModeActive, successfulChecks, suspended, config,
                  owed, saveLost >>

\* ExecuteRollback, up to the reload of the services.
RollbackRestore ==
  /\ up /\ phase = "idle"
  /\ phase' = "rollback"
  /\ \E works \in BOOLEAN : config' \in RolledBack(checkpoint, works)
  /\ UNCHANGED << up, safeModeActive, successfulChecks, suspended, checkpoint,
                  owed, saveLost >>

\* Seeded fault: the new safe mode is not saved.
RollbackFinishUnsaved ==
  /\ up /\ phase = "rollback"
  /\ phase' = "idle"
  /\ safeModeActive' = TRUE
  /\ successfulChecks' = 0
  /\ owed' = ExitChecks
  /\ UNCHANGED << up, suspended, config, checkpoint, saveLost >>

\* ExecuteRollback, after it: safe mode, from a count of zero, saved.
RollbackFinish ==
  /\ up /\ phase = "rollback"
  /\ phase' = "idle"
  /\ safeModeActive' = TRUE
  /\ successfulChecks' = 0
  /\ owed' = ExitChecks
  /\ SaveCheckpoint(TRUE, 0)
  /\ UNCHANGED << up, suspended, config >>

\* An action of the executor, an operator or another service commits a
\* configuration.
CommitConfig(c) ==
  /\ config' = c
  /\ UNCHANGED << up, safeModeActive, successfulChecks, suspended, phase,
                  checkpoint, owed, saveLost >>

-------------------------------------------------------------------------------
(* Process.                                                                *)

\* Seeded fault: a file that cannot be read means a normal start.
BootTrusting ==
  /\ ~up
  /\ up' = TRUE
  /\ suspended' = FALSE
  /\ phase' = "idle"
  /\ safeModeActive' = (Loads(checkpoint) /\ checkpoint.safe)
  /\ successfulChecks' = IF Loads(checkpoint) THEN checkpoint.checks ELSE 0
  /\ owed' = IF owed > 0 \/ BootsSafe(checkpoint) THEN ExitChecks ELSE 0
  /\ UNCHANGED << checkpoint, config, saveLost >>

\* watchdog.New at process start: an unreadable or corrupted file means
\* safe mode, with a fresh count that is not written back.
Boot ==
  /\ ~up
  /\ up' = TRUE
  /\ suspended' = FALSE
  /\ phase' = "idle"
  /\ IF Loads(checkpoint)
     THEN /\ safeModeActive' = checkpoint.safe
          /\ successfulChecks' = checkpoint.checks
     ELSE /\ safeModeActive' = TRUE
          /\ successfulChecks' = 0
  /\ owed' = IF owed > 0 \/ BootsSafe(checkpoint) THEN ExitChecks ELSE 0
  /\ UNCHANGED << checkpoint, config, saveLost >>

\* The process ends: crash, kill, power loss, restart.  Memory is lost, the
\* file and the committed configuration stay.
Exit ==
  /\ up
  /\ up' = FALSE
  /\ safeModeActive' = FALSE
  /\ successfulChecks' = 0
  /\ suspended' = FALSE
  /\ phase' = "idle"
  /\ UNCHANGED << checkpoint, config, owed, saveLost >>

\* A first installation (no file) or the file a finished run left behind.
InitialCheckpoints ==
  {file \in Checkpoints :
     /\ file.kind \in {"absent", "json"}
     /\ file.checks = 0
     /\ file.exported = config
     /\ file.safe => file.kind = "json"}

Init ==
  /\ up = FALSE
  /\ safeModeActive = FALSE
  /\ successfulChecks = 0
  /\ suspended = FALSE
  /\ phase = "idle"
  /\ config \in Configs
  /\ checkpoint \in InitialCheckpoints
  /\ owed = IF BootsSafe(checkpoint) THEN ExitChecks ELSE 0
  /\ saveLost = FALSE

Next ==
  \/ Boot
  \/ Exit
  \/ Suspend
  \/ Resume
  \/ RecordHealthCheckSuccess
  \/ ExportBegin
  \/ ExportEnd
  \/ RollbackRestore
  \/ RollbackFinish
  \/ \E c \in Configs : CommitConfig(c)

Spec == Init /\ [][Next]_wdVars

-------------------------------------------------------------------------------
(* Properties.                                                             *)

\* Types of the state, and the file never stores a partial count: the
\* watchdog saves when the count is zero only.
WDTypeOK ==
  /\ up \in BOOLEAN
  /\ safeModeActive \in BOOLEAN
  /\ successfulChecks \in 0 .. ExitChecks - 1
  /\ suspended \in BOOLEAN
  /\ phase \in Phases
  /\ checkpoint \in Checkpoints
  /\ config \in Configs
  /\ owed \in 0 .. ExitChecks
  /\ saveLost \in BOOLEAN

\* Safe mode survives the process.  While safe mode is owed to the router,
\* any process that dies and starts again (watchdog.New) is in safe mode
\* again, whatever wrote the shared checkpoint file last; the only exception
\* is a JSON write that failed and whose error ExecuteRollback ignores.
SafeModeDurable ==
  owed > 0 /\ ~saveLost => BootsSafe(checkpoint)

\* Healing is earned.  The agent is out of safe mode only after the number
\* of health checks that RecordHealthCheckSuccess requires were recorded by
\* one process since the last rollback or start in safe mode: a crash, a
\* restart or an export into the checkpoint file never shortens the count.
HealingIsEarned ==
  up /\ ~safeModeActive /\ ~saveLost => owed = 0

\* The count that RecordHealthCheckSuccess keeps in memory is exactly what
\* is still owed: none is credited twice, lost, or carried over a restart.
CountIsExact ==
  up /\ safeModeActive => owed + successfulChecks = ExitChecks
===============================================================================
