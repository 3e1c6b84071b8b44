---------------------------------- MODULE Tick ---------------------------------
(***************************************************************************)
(* What the main loop of cmd/main.go does at a tick besides healing: the   *)
(* channel width that follows the traffic, latency pacing, streaming and   *)
(* bulk acceleration, the maintenance every six hours; the requests that   *)
(* run actions meanwhile (/boost and /health over Telegram, /api/approve,  *)
(* /api/chaos), reloads of the configuration, and restarts.                *)
(*                                                                         *)
(* Whether a tick finds an anomaly is in Measures, how an action is chosen *)
(* and recovered from in HealingLoop; here any action may be the one that  *)
(* heals, and any tick may be one that safe mode, the kill switch or a     *)
(* failed sample cuts short.                                               *)
(***************************************************************************)
EXTENDS Radio

CONSTANTS
  RestoreCycles,   (* low ticks before a revert: 60 in the code            *)
  FlagDry,         (* the -dry-run of the command line                     *)
  Classes,         (* classes of traffic with an action: stream, bulk      *)
  HealActions,     (* actions that heal in the loop                        *)
  RequestActions   (* actions that the handlers are asked for              *)

ASSUME TickAssumption ==
  /\ RestoreCycles \in Nat \ {0}
  /\ FlagDry \in BOOLEAN
  /\ Classes \subseteq {"stream", "bulk"}
  /\ HealActions \subseteq Actions
  /\ RequestActions \subseteq Actions

VARIABLES
  up,         (* the process runs                                          *)
  loop,       (* program counter of the main goroutine                     *)
  tick,       (* what it has read at the start of the tick                 *)
  boosted,    (* isWifiBoostedAtomic                                       *)
  lowCycles,  (* lowTrafficCycles, up to one more than RestoreCycles       *)
  class,      (* streamingPipelineActive and bulkDownloadActive            *)
  dryRun,     (* DryRun, of cfg and of cfgAtomic                           *)
  asked,      (* history: DRY_RUN as last asked for, in the file or by flag*)
  quiet,      (* history: low ticks in a row, up to RestoreCycles          *)
  asleep      (* the house: no traffic, no station, no request             *)

loopVars == << loop, tick, lowCycles, class, quiet >>
vars == << radioVars, up, loopVars, boosted, dryRun, asked, asleep >>

-------------------------------------------------------------------------------
(* Data.                                                                   *)

LoopStates == {"select", "sampled", "width", "pace", "pacing", "accelerate",
               "accelerating", "detect", "healing", "maintaining"}

\* Those in which the loop runs an action.
Busy == {"width", "pacing", "accelerating", "healing", "maintaining"}

Ticks  == [boosted : BOOLEAN, dry : BOOLEAN, asked : BOOLEAN]
NoTick == [boosted |-> FALSE, dry |-> FALSE, asked |-> FALSE]

\* The rate of a sample, to the two thresholds: nothing keeps an operator
\* from setting the one for a revert above the one for a boost.
Rates == [high : BOOLEAN, low : BOOLEAN]

\* agent.env as it is when it is read: it sets DRY_RUN, or does not, or
\* cannot be read.
Files == {"unset", "on", "off"}

\* LoadConfigWithFlags: the file is read after the flag has been applied.
LoadConfig(file, flag) == IF file = "unset" THEN flag ELSE file = "on"

\* What the loop does about a class of traffic.
Acceleration(new) == IF new = "stream" THEN "optimize_streaming_pipeline"
                                       ELSE "tune_network_performance"

-------------------------------------------------------------------------------
(* The main goroutine.                                                     *)

InLoop(from, to) == up /\ loop = from /\ loop' = to

\* Seeded fault: a dry run never answers.
ExecuteSilently(a, act, dry, then, spare) ==
  /\ job' = [job EXCEPT ![a] = IF dry THEN NoJob
                                      ELSE NewJob(act, dry, then, spare)]
  /\ UNCHANGED << staged, committed, air >>

Execute(a, act, dry, then, spare) ==
  /\ job' = [job EXCEPT ![a] = NewJob(act, dry, then, spare)]
  /\ UNCHANGED << staged, committed, air >>

\* The loop's tuning passes FALSE for dryRun.
Tune(act) == Execute("loop", act, FALSE, "keep", FALSE)

Obey(act, then) == Execute("loop", act, tick.dry, then, tick.asked)

\* The snapshot of the configuration and of the flag.
StartTick ==
  /\ InLoop("select", "sampled")
  /\ tick' = [boosted |-> boosted, dry |-> dryRun, asked |-> asked]
  /\ UNCHANGED << radioVars, up, lowCycles, class, quiet, boosted, dryRun,
                  asked, asleep >>

\* No sample, safe mode, or the kill switch: the counter of low ticks is left
\* as it is.
SkipTick ==
  /\ InLoop("sampled", "select")
  /\ ~asleep
  /\ tick' = NoTick
  /\ UNCHANGED << radioVars, up, lowCycles, class, quiet, boosted, dryRun,
                  asked, asleep >>

CountedQuiet(rate) ==
  quiet' = IF ~rate.low THEN 0
           ELSE IF quiet < RestoreCycles THEN quiet + 1 ELSE quiet

NextCycle == IF lowCycles <= RestoreCycles THEN lowCycles + 1 ELSE lowCycles

\* Seeded fault: the revert is tried in one cycle only.
RevertDueOnce(cycles) == cycles = RestoreCycles

RevertDue(cycles) == cycles >= RestoreCycles

Boost(rate) ==
  /\ rate.high /\ ~tick.boosted
  /\ InLoop("sampled", "width")
  /\ Obey("boost_wifi_bandwidth", "on")
  /\ UNCHANGED lowCycles

Revert(rate) ==
  /\ tick.boosted /\ rate.low
  /\ lowCycles' = NextCycle
  /\ RevertDue(lowCycles')
  /\ InLoop("sampled", "width")
  /\ Obey("revert_wifi_bandwidth", "off")

\* Seeded fault: a busy tick leaves the counter alone.
KeepWidthCounting(rate) ==
  /\ ~(rate.high /\ ~tick.boosted)
  /\ lowCycles' = IF tick.boosted /\ rate.low THEN NextCycle ELSE lowCycles
  /\ tick.boosted /\ rate.low => ~RevertDue(lowCycles')
  /\ InLoop("sampled", "pace")
  /\ UNCHANGED radioVars

KeepWidth(rate) ==
  /\ ~(rate.high /\ ~tick.boosted)
  /\ lowCycles' = IF ~tick.boosted THEN lowCycles
                  ELSE IF rate.low THEN NextCycle ELSE 0
  /\ tick.boosted /\ rate.low => ~RevertDue(lowCycles')
  /\ InLoop("sampled", "pace")
  /\ UNCHANGED radioVars

\* The first decision of a tick.
Bandwidth(rate) ==
  /\ asleep => rate.low /\ ~rate.high
  /\ Boost(rate) \/ Revert(rate) \/ KeepWidth(rate)
  /\ CountedQuiet(rate)
  /\ UNCHANGED << up, tick, class, boosted, dryRun, asked, asleep >>

\* Heavy traffic with a latency that rises.
Pace ==
  /\ up /\ loop = "pace"
  /\ \/ loop' = "accelerate" /\ UNCHANGED radioVars
     \/ loop' = "pacing" /\ ~asleep /\ Tune("stabilize_latency_and_jitter")
  /\ UNCHANGED << up, tick, lowCycles, class, quiet, boosted, dryRun, asked,
                  asleep >>

\* The collector's class of traffic, to which the loop reacts when it is new.
Accelerate(new) ==
  /\ up /\ loop = "accelerate"
  /\ asleep => new \in {class, "other"}
  /\ class' = new
  /\ IF new \in Classes \ {class}
     THEN loop' = "accelerating" /\ Tune(Acceleration(new))
     ELSE loop' = "detect" /\ UNCHANGED radioVars
  /\ UNCHANGED << up, tick, lowCycles, quiet, boosted, dryRun, asked, asleep >>

NoAnomaly ==
  /\ InLoop("detect", "select")
  /\ tick' = NoTick
  /\ UNCHANGED << radioVars, up, lowCycles, class, quiet, boosted, dryRun,
                  asked, asleep >>

\* A skill's action, the AI's, or the default one.
Heal(act) ==
  /\ InLoop("detect", "healing")
  /\ Obey(act, "keep")
  /\ UNCHANGED << up, tick, lowCycles, class, quiet, boosted, dryRun, asked,
                  asleep >>

\* An answer below its threshold, or a default action that failed.
Rollback(width) ==
  /\ up
  /\ \/ loop = "detect"
     \/ loop = "healing" /\ At("loop", "failed")
  /\ loop' = "select"
  /\ tick' = NoTick
  /\ Restored(width)
  /\ job' = [Unsure EXCEPT !["loop"] = NoJob]
  /\ air' = "empty"
  /\ UNCHANGED << up, lowCycles, class, quiet, boosted, dryRun, asked, asleep >>

\* Every six hours, between two ticks.
Maintain ==
  /\ InLoop("select", "maintaining")
  /\ Tune("tune_network_performance")
  /\ UNCHANGED << up, tick, lowCycles, class, quiet, boosted, dryRun, asked,
                  asleep >>

AfterAction(state) ==
  IF state = "width" THEN "pace"
  ELSE IF state = "pacing" THEN "accelerate"
  ELSE IF state = "accelerating" THEN "detect"
  ELSE "select"

\* What the caller makes of the flag.
Flag(a) == IF At(a, "ok") /\ job[a].then # "keep" THEN job[a].then = "on"
           ELSE boosted

Ended(a) == At(a, "ok") \/ At(a, "failed")

LoopGoesOn ==
  /\ up /\ Ended("loop")
  /\ loop' = AfterAction(loop)
  /\ tick' = IF loop' = "select" THEN NoTick ELSE tick
  /\ boosted' = Flag("loop")
  /\ lowCycles' = IF At("loop", "ok") /\ job["loop"].then # "keep"
                  THEN 0 ELSE lowCycles
  /\ job' = [job EXCEPT !["loop"] = NoJob]
  /\ UNCHANGED << staged, committed, air, up, class, quiet, dryRun, asked,
                  asleep >>

-------------------------------------------------------------------------------
(* Requests.                                                               *)

Free(h) == up /\ ~asleep /\ At(h, "none")

requestVars == << up, loopVars, boosted, dryRun, asked, asleep >>

\* /boost: the flag follows, and dry runs do not matter.
BoostCommand(h) ==
  /\ Free(h)
  /\ Execute(h, "boost_wifi_bandwidth", FALSE, "on", FALSE)
  /\ UNCHANGED requestVars

\* /api/approve and /health, under the configuration of the moment.
Request(h, act) ==
  /\ Free(h)
  /\ Execute(h, act, dryRun, "keep", asked)
  /\ UNCHANGED requestVars

\* /api/chaos.
Inject(h, act) ==
  /\ Free(h)
  /\ Execute(h, act, FALSE, "keep", FALSE)
  /\ UNCHANGED requestVars

Answer(h) ==
  /\ up /\ Ended(h)
  /\ boosted' = Flag(h)
  /\ job' = [job EXCEPT ![h] = NoJob]
  /\ UNCHANGED << staged, committed, air, up, loopVars, dryRun, asked, asleep >>

\* Seeded fault: a reload starts from the defaults.
ReloadConfigAnew(file) ==
  /\ up
  /\ dryRun' = LoadConfig(file, FALSE)
  /\ asked' = IF file = "unset" THEN asked ELSE file = "on"
  /\ UNCHANGED << radioVars, up, loopVars, boosted, asleep >>

\* /api/config/reload: what the file leaves open stays as it is.
ReloadConfig(file) ==
  /\ up
  /\ dryRun' = LoadConfig(file, dryRun)
  /\ asked' = IF file = "unset" THEN asked ELSE file = "on"
  /\ UNCHANGED << radioVars, up, loopVars, boosted, asleep >>

-------------------------------------------------------------------------------
(* The process and the world.                                              *)

\* Everything but the configuration of the radio is lost.
Die ==
  /\ up
  /\ up' = FALSE
  /\ loop' = "select"
  /\ tick' = NoTick
  /\ boosted' = FALSE
  /\ lowCycles' = 0
  /\ class' = "other"
  /\ quiet' = 0
  /\ job' = [a \in Actors |-> NoJob]
  /\ UNCHANGED << staged, committed, air, dryRun, asked, asleep >>

Start(file) ==
  /\ ~up
  /\ up' = TRUE
  /\ dryRun' = LoadConfig(file, FlagDry)
  /\ asked' = IF file = "unset" THEN FlagDry ELSE file = "on"
  /\ UNCHANGED << radioVars, loopVars, boosted, asleep >>

LoseStaged ==
  /\ ~up
  /\ PowerCycle
  /\ UNCHANGED << up, loopVars, boosted, dryRun, asked, asleep >>

SomeoneElse(who) ==
  /\ ~asleep
  /\ AirChanges(who)
  /\ UNCHANGED << up, loopVars, boosted, dryRun, asked, asleep >>

SleepOrWake ==
  /\ air = "empty" \/ asleep
  /\ asleep' = ~asleep
  /\ UNCHANGED << radioVars, up, loopVars, boosted, dryRun, asked >>

-------------------------------------------------------------------------------
Init ==
  /\ staged \in Widths /\ committed = staged
  /\ air = "empty"
  /\ job = [a \in Actors |-> NoJob]
  /\ up = FALSE
  /\ loop = "select"
  /\ tick = NoTick
  /\ boosted = FALSE
  /\ lowCycles = 0
  /\ class = "other"
  /\ dryRun = FlagDry
  /\ asked = FlagDry
  /\ quiet = 0
  /\ asleep = FALSE

Runs(a) ==
  /\ up
  /\ Command(a)
  /\ UNCHANGED << up, loopVars, boosted, dryRun, asked, asleep >>

LoopStep ==
  \/ StartTick
  \/ SkipTick
  \/ \E rate \in Rates : Bandwidth(rate)
  \/ Pace
  \/ \E new \in Classes \cup {"other"} : Accelerate(new)
  \/ NoAnomaly
  \/ \E act \in HealActions : Heal(act)
  \/ \E width \in Widths : Rollback(width)
  \/ Maintain
  \/ LoopGoesOn
  \/ Runs("loop")

HandlerStep(h) == Answer(h) \/ Runs(h)

Asked(h) ==
  \/ BoostCommand(h)
  \/ \E act \in RequestActions : Request(h, act) \/ Inject(h, act)

Next ==
  \/ LoopStep
  \/ \E h \in Handlers : HandlerStep(h) \/ Asked(h)
  \/ \E file \in Files : ReloadConfig(file) \/ Start(file)
  \/ Die
  \/ LoseStaged
  \/ \E who \in Peers \cup {"empty"} : SomeoneElse(who)
  \/ SleepOrWake

Spec == Init /\ [][Next]_vars

\* The loop's boost or revert is written.
WidthWritten ==
  /\ loop = "width"
  /\ Commit("loop", TRUE)
  /\ UNCHANGED << up, loopVars, boosted, dryRun, asked, asleep >>

(***************************************************************************)
(* Fairness.  Each goroutine keeps running and every command has a time    *)
(* limit; procd respawns the process; `select' picks at random among the   *)
(* tickers that are ready, and a revert that is tried for ever is written  *)
(* in the end: strong fairness.                                            *)
(***************************************************************************)
Fairness ==
  /\ WF_vars(LoopStep)
  /\ \A h \in Handlers : WF_vars(HandlerStep(h))
  /\ WF_vars(\E file \in Files : Start(file))
  /\ SF_vars(StartTick)
  /\ SF_vars(WidthWritten)

FairSpec == Spec /\ Fairness

-------------------------------------------------------------------------------
(* Properties.                                                             *)

\* Types, and what ties the loop's job to its program counter.
TickTypeOK ==
  /\ staged \in Widths /\ committed \in Widths
  /\ air \in Peers \cup {"empty"}
  /\ job \in [Actors -> Jobs]
  /\ up \in BOOLEAN
  /\ loop \in LoopStates
  /\ tick \in Ticks
  /\ boosted \in BOOLEAN
  /\ lowCycles \in 0 .. RestoreCycles + 1
  /\ class \in Classes \cup {"other"}
  /\ dryRun \in BOOLEAN /\ asked \in BOOLEAN
  /\ quiet \in 0 .. RestoreCycles
  /\ asleep \in BOOLEAN
  /\ At("loop", "none") <=> loop \notin Busy

\* The running process takes the flag of the boost away only after
\* RestoreCycles ticks in a row found the traffic low, whatever boosts by the
\* loop and by /boost, failed reverts, skipped ticks and restarts went before.
RevertIsEarned ==
  [][up /\ up' /\ boosted /\ ~boosted' => quiet = RestoreCycles]_vars

\* When the flag changes, the configuration has the width it stands for,
\* although the executor has no lock and a commit writes what anybody has
\* staged -- unless it was a dry run, the `set' had failed, or someone else
\* set a width in between.
FlagFollowsRadio ==
  [][up /\ up' /\ boosted' # boosted =>
       \E a \in Actors :
         /\ job[a].then = IF boosted' THEN "on" ELSE "off"
         /\ job[a].sure => committed = IF boosted' THEN Max160 ELSE Eco]_vars

\* What a tick or a request does under DRY_RUN as it was last asked for, by
\* the file or else by the flag, it does without a command: reloads of a file
\* that no longer mentions it, and reloads during the tick, change nothing.
\* (The loop's own tuning, /boost and /api/chaos do not look at DRY_RUN.)
DryRunAsAsked ==
  \A a \in Actors : job[a].spare => At(a, "ok")

\* Wi-Fi is reloaded under a station only when the guard had no answer or
\* the station came after it.
ReloadSparesStations ==
  \A a \in Actors : At(a, "reload") /\ job[a].sure => air = "empty"

\* When the house sleeps, the radio goes back to 80 MHz: reverts that fail are
\* tried again.
EcoReturns == <>[]asleep => <>[]~boosted
===============================================================================
