--------------------------------- MODULE Radio ---------------------------------
(***************************************************************************)
(* The actions of executor/executor.go that write the configuration of the *)
(* radio, command by command: the guard that asks ubus for stations, `uci  *)
(* set', which stages a change in a directory shared by every process,     *)
(* `uci commit wireless', which writes all that is staged by whomever, and *)
(* `wifi reload', which drops every station.  The executor has no lock:    *)
(* the main loop and the handlers run their actions side by side.          *)
(*                                                                         *)
(* Of the configuration only the channel width of the 5 GHz radio is kept, *)
(* the one setting that actions disagree about.                            *)
(***************************************************************************)
EXTENDS Naturals

CONSTANTS
  Handlers,   (* goroutines, other than the loop, that run actions         *)
  Peers       (* who may be on the air: stations, the repeater's uplink    *)

ASSUME RadioAssumption == "loop" \notin Handlers /\ "empty" \notin Peers

VARIABLES
  staged,     (* the width a commit would write                            *)
  committed,  (* the width in /etc/config/wireless                         *)
  air,        (* one who would lose the connection by a reload, or "empty" *)
  job         (* for each goroutine: the action it executes                *)

radioVars == << staged, committed, air, job >>

Actors == {"loop"} \cup Handlers

-------------------------------------------------------------------------------
(* Actions by what they do to the radio.                                   *)

Eco    == 80
Max160 == 160
Widths == {Eco, Max160}

Guarded    == {"boost_wifi_bandwidth", "revert_wifi_bandwidth",
               "optimize_wifi_channel"}
Reloading  == {"remediate_wifi_quality", "scale_tx_power_down",
               "align_channels"}
Committing == {"tune_network_performance", "optimize_streaming_pipeline",
               "stabilize_latency_and_jitter",
               "remediate_silent_wan_blackhole"}

\* Those that need an address, which no caller gives them, and those that
\* return no error.
Rejected  == {"ap_failover", "block_device", "set_wan_mac"}
Unfailing == {"no_action_required", "enable_cake_sqm",
              "remediate_sticky_clients"}

\* Those that leave the configuration of the radio alone.
Others  == {"purge_memory_cache", "restart_wan_interface",
            "restart_interface", "set_qos_priority"}
           \cup Rejected \cup Unfailing
Actions == Guarded \cup Reloading \cup Committing \cup Others

ToMax == {"boost_wifi_bandwidth", "remediate_wifi_quality",
          "tune_network_performance"}
ToEco == {"revert_wifi_bandwidth"}

WidthOf(act) == IF act \in ToEco THEN Eco ELSE Max160

\* Actions that return an error when their commit fails; the others ignore it.
CommitMatters == {"boost_wifi_bandwidth", "revert_wifi_bandwidth",
                  "tune_network_performance", "optimize_streaming_pipeline",
                  "stabilize_latency_and_jitter"}

\* at:   the next command, or how the action ended;
\* then: what the caller makes of the flag isWifiBoosted on success;
\* spare: history, whether the caller honours DRY_RUN and it had been asked
\*       for when it began;
\* sure: history, the staged width is the one this action has set, or nobody
\*       is on the air as its last look at it said.
Jobs == [action : Actions,
         at     : {"none", "guard", "set", "commit", "recheck", "reload",
                   "run", "ok", "failed"},
         then   : {"keep", "on", "off"},
         spare  : BOOLEAN,
         sure   : BOOLEAN]

NoJob == [action |-> "purge_memory_cache", at |-> "none", then |-> "keep",
          spare |-> FALSE, sure |-> FALSE]

FirstCommand(act) ==
  IF act \in Guarded THEN "guard"
  ELSE IF act \in ToMax \cup ToEco THEN "set"
  ELSE IF act \in Reloading \cup Committing THEN "commit"
  ELSE "run"

\* ExecuteAction: a dry run succeeds without a command.
NewJob(act, dry, then, spare) ==
  [action |-> act, at |-> IF dry THEN "ok" ELSE FirstCommand(act),
   then |-> then, spare |-> spare, sure |-> FALSE]

-------------------------------------------------------------------------------
(* Commands.                                                               *)

At(a, command) == job[a].at = command

Goes(a, command, sure) ==
  job' = [job EXCEPT ![a].at = command, ![a].sure = sure]

\* What the guard sees.  Both bands and the uplink are asked about; what does
\* not answer has nobody, although AreWiFiClientsIdle then returns `not idle'
\* with its error.
Seen(answers) == IF air \in answers THEN air ELSE "empty"
Answers       == SUBSET Peers

\* checkWiFiIdleGuard, before anything is written.
Guard(a, answers) ==
  /\ At(a, "guard")
  /\ Goes(a, IF Seen(answers) # "empty" THEN "failed"
             ELSE IF job[a].action \in ToMax \cup ToEco THEN "set"
             ELSE "commit", FALSE)
  /\ UNCHANGED << staged, committed, air >>

\* uci set ...htmode; its error is ignored.  Nobody else can be sure any
\* more of what is staged.
Set(a, stored) ==
  /\ At(a, "set")
  /\ staged' = IF stored THEN WidthOf(job[a].action) ELSE staged
  /\ job' = [b \in Actors |->
               IF b = a THEN [job[b] EXCEPT !.at = "commit", !.sure = stored]
               ELSE [job[b] EXCEPT !.sure = @ /\ ~stored]]
  /\ UNCHANGED << committed, air >>

\* Seeded fault: no action returns the error of its commit.
AfterCommitUnchecked(act, stored) ==
  IF act \in Reloading THEN "recheck"
  ELSE IF act = "remediate_silent_wan_blackhole" THEN "run"
  ELSE "ok"

\* Seeded fault: TriggerWiFiReload without its guard.
AfterCommitUnguarded(act, stored) ==
  IF act \in Reloading THEN "reload"
  ELSE IF act = "remediate_silent_wan_blackhole" THEN "run"
  ELSE IF act \in CommitMatters /\ ~stored THEN "failed"
  ELSE "ok"

AfterCommit(act, stored) ==
  IF act \in Reloading THEN "recheck"
  ELSE IF act = "remediate_silent_wan_blackhole" THEN "run"
  ELSE IF act \in CommitMatters /\ ~stored THEN "failed"
  ELSE "ok"

\* uci commit wireless.  What it fails to write stays staged.
Commit(a, stored) ==
  /\ At(a, "commit")
  /\ committed' = IF stored THEN staged ELSE committed
  /\ Goes(a, AfterCommit(job[a].action, stored), job[a].sure)
  /\ UNCHANGED << staged, air >>

\* checkWiFiIdleGuard in TriggerWiFiReload, after the commit.
Recheck(a, answers) ==
  /\ At(a, "recheck")
  /\ Goes(a, IF Seen(answers) # "empty" THEN "failed" ELSE "reload",
          answers = Peers)
  /\ UNCHANGED << staged, committed, air >>

\* wifi reload: whoever is on the air is disconnected, for a while.
Reload(a, done) ==
  /\ At(a, "reload")
  /\ Goes(a, IF done THEN "ok" ELSE "failed", FALSE)
  /\ air' = IF done THEN "empty" ELSE air
  /\ UNCHANGED << staged, committed >>

\* Everything an action does that is not about the radio.
Run(a, done) ==
  /\ At(a, "run")
  /\ done => job[a].action \notin Rejected
  /\ ~done => job[a].action \notin Unfailing
  /\ Goes(a, IF done THEN "ok" ELSE "failed", FALSE)
  /\ UNCHANGED << staged, committed, air >>

Command(a) ==
  \/ \E answers \in Answers : Guard(a, answers) \/ Recheck(a, answers)
  \/ \E ok \in BOOLEAN : Set(a, ok) \/ Commit(a, ok) \/ Reload(a, ok) \/ Run(a, ok)

-------------------------------------------------------------------------------
(* What happens to the radio from outside.                                 *)

\* A station associates, the repeater finds its uplink, or all are gone: no
\* look at the air is up to date.
AirChanges(who) ==
  /\ air' = who
  /\ job' = [b \in Actors |->
               IF At(b, "reload") /\ who # "empty"
               THEN [job[b] EXCEPT !.sure = FALSE] ELSE job[b]]
  /\ UNCHANGED << staged, committed >>

\* The watchdog's rollback, which imports or commits what the checkpoint
\* holds, or only commits what is staged.
Restored(width) ==
  /\ staged' = width
  /\ committed' = width

Unsure == [b \in Actors |-> [job[b] EXCEPT !.sure = FALSE]]

\* The staged changes are in RAM.
PowerCycle ==
  /\ staged' = committed
  /\ UNCHANGED << committed, air, job >>
===============================================================================
