------------------------------- MODULE TickProofs ------------------------------
(***************************************************************************)
(* Proofs about Tick, for any number of handlers and of cycles; and about  *)
(* the pure operators on what a tick samples and records, those of         *)
(* Intents, Measures and StoreQueries, for every input.                    *)
(***************************************************************************)
EXTENDS Tick, Measures, StoreQueries, WellFoundedInduction, TLAPS

(***************************************************************************)
(* The invariant.  A low tick adds one to lowCycles and to quiet, and what *)
(* resets quiet finds lowCycles reset, because a radio that is not boosted *)
(* has no low cycles; an action is sure of its width only as long as what  *)
(* is staged is its own, so that its commit, or anybody's, writes it; dry  *)
(* runs are decided from a snapshot that was up to date when it was taken. *)
(***************************************************************************)
Resting ==
  /\ \A a \in Actors : At(a, "none") => job[a] = NoJob
  /\ ~up => job = [a \in Actors |-> NoJob]

Earned ==
  /\ lowCycles <= quiet \/ quiet = RestoreCycles
  /\ ~boosted => lowCycles = 0
  /\ loop = "sampled" => IF tick.boosted THEN boosted ELSE lowCycles = 0
  /\ job["loop"].then = "off" => quiet = RestoreCycles
  /\ \A h \in Handlers : job[h].then # "off"

Written ==
  \A a \in Actors :
    /\ job[a].then = "on"  => job[a].action = "boost_wifi_bandwidth"
    /\ job[a].then = "off" => job[a].action = "revert_wifi_bandwidth"
    /\ job[a].then # "keep" /\ job[a].sure /\ job[a].at \in {"commit", "ok"}
         => /\ staged = WidthOf(job[a].action)
            /\ At(a, "ok") => committed = staged

Dry ==
  /\ dryRun = asked
  /\ tick.dry = tick.asked
  /\ DryRunAsAsked

Inv == TickTypeOK /\ Resting /\ Earned /\ Written /\ Dry /\ ReloadSparesStations

-------------------------------------------------------------------------------
(* What the steps do to the jobs.                                          *)

\* A job that begins is well formed, and nobody else's changes.
LEMMA ExecuteStarts ==
  ASSUME TickTypeOK, NEW a \in Actors, NEW act \in Actions,
         NEW dry \in BOOLEAN, NEW then \in {"keep", "on", "off"},
         NEW spare \in BOOLEAN, Execute(a, act, dry, then, spare)
  PROVE  /\ job' \in [Actors -> Jobs]
         /\ job'[a] = NewJob(act, dry, then, spare)
         /\ job'[a].at # "none"
         /\ \A b \in Actors \ {a} : job'[b] = job[b]
         /\ UNCHANGED << staged, committed, air >>
<1>1. NewJob(act, dry, then, spare) \in Jobs
  BY DEF NewJob, Jobs, FirstCommand
<1>2. NewJob(act, dry, then, spare).at # "none"
  BY DEF NewJob, FirstCommand
<1> QED BY <1>1, <1>2 DEF Execute, TickTypeOK

\* A command is run by a job that has not ended, and changes of every job
\* only how far it is and what it can be sure of, of the others' not even
\* how far.
Steps == {"guard", "set", "commit", "recheck", "reload", "run", "ok", "failed"}

SameJob(b) ==
  /\ job'[b].action = job[b].action
  /\ job'[b].then = job[b].then
  /\ job'[b].spare = job[b].spare

GoesOn(a) ==
  /\ job' \in [Actors -> Jobs]
  /\ staged' \in Widths /\ committed' \in Widths
  /\ air' \in {air, "empty"}
  /\ job[a].at \notin {"none", "ok", "failed"}
  /\ job'[a].at \in Steps
  /\ \A b \in Actors : /\ SameJob(b)
                       /\ b # a => job'[b].at = job[b].at
                       /\ b # a /\ job'[b].sure => job[b].sure

LEMMA CommandGoesOn ==
  ASSUME TickTypeOK, NEW a \in Actors, Command(a)
  PROVE  GoesOn(a)
<1>0. job \in [Actors -> Jobs] /\ staged \in Widths /\ committed \in Widths
  BY DEF TickTypeOK
<1>1. ASSUME NEW at \in Steps, NEW sure \in BOOLEAN, Goes(a, at, sure)
      PROVE  /\ job' \in [Actors -> Jobs]
             /\ job'[a].at = at
             /\ \A b \in Actors : SameJob(b) /\ (b # a => job'[b] = job[b])
  <2> DEFINE new == [job[a] EXCEPT !.at = at, !.sure = sure]
  <2>1. job' = [job EXCEPT ![a] = new]
    BY <1>0, <1>1 DEF Goes, Jobs
  <2>2. new \in Jobs /\ new.at = at
    BY <1>0 DEF Jobs, Steps
  <2>3. /\ new.action = job[a].action
        /\ new.then = job[a].then
        /\ new.spare = job[a].spare
    BY <1>0 DEF Jobs
  <2> HIDE DEF new
  <2> QED BY <1>0, <2>1, <2>2, <2>3 DEF SameJob
<1>2. CASE \E answers \in Answers : Guard(a, answers)
  <2>1. PICK answers \in Answers : Guard(a, answers)
    BY <1>2
  <2> DEFINE next == IF Seen(answers) # "empty" THEN "failed"
                     ELSE IF job[a].action \in ToMax \cup ToEco THEN "set"
                     ELSE "commit"
  <2>2. next \in Steps /\ Goes(a, next, FALSE)
    BY <2>1 DEF Guard, Steps
  <2>3. At(a, "guard") /\ UNCHANGED << staged, committed, air >>
    BY <2>1 DEF Guard
  <2> HIDE DEF next
  <2> QED BY <1>0, <1>1, <2>2, <2>3 DEF GoesOn, At
<1>3. CASE \E answers \in Answers : Recheck(a, answers)
  <2>1. PICK answers \in Answers : Recheck(a, answers)
    BY <1>3
  <2> DEFINE next == IF Seen(answers) # "empty" THEN "failed" ELSE "reload"
             sees == answers = Peers
  <2>2. next \in Steps /\ sees \in BOOLEAN /\ Goes(a, next, sees)
    BY <2>1 DEF Recheck, Steps
  <2>3. At(a, "recheck") /\ UNCHANGED << staged, committed, air >>
    BY <2>1 DEF Recheck
  <2> HIDE DEF next, sees
  <2> QED BY <1>0, <1>1, <2>2, <2>3 DEF GoesOn, At
<1>4. CASE \E stored \in BOOLEAN : Set(a, stored)
  <2>1. PICK stored \in BOOLEAN : Set(a, stored)
    BY <1>4
  <2>2. job' \in [Actors -> Jobs]
    BY <1>0, <2>1 DEF Set, Jobs
  <2>3. /\ job'[a].at = "commit"
        /\ \A b \in Actors : /\ SameJob(b)
                             /\ b # a => job'[b].at = job[b].at
                             /\ b # a /\ job'[b].sure => job[b].sure
    BY <1>0, <2>1 DEF Set, Jobs, SameJob
  <2>4. staged' \in Widths
    BY <1>0, <2>1 DEF Set, WidthOf, Widths
  <2> QED BY <1>0, <2>1, <2>2, <2>3, <2>4 DEF GoesOn, Set, At, Steps
<1>5. CASE \E stored \in BOOLEAN : Commit(a, stored)
  <2>1. PICK stored \in BOOLEAN : Commit(a, stored)
    BY <1>5
  <2> DEFINE next == AfterCommit(job[a].action, stored)
             sure == job[a].sure
  <2>2. next \in Steps /\ Goes(a, next, sure)
    BY <2>1 DEF Commit, AfterCommit, Steps
  <2>3. sure \in BOOLEAN
    BY <1>0 DEF Jobs
  <2>4. At(a, "commit") /\ staged' = staged /\ air' = air /\ committed' \in Widths
    BY <1>0, <2>1 DEF Commit
  <2> HIDE DEF next, sure
  <2> QED BY <1>0, <1>1, <2>2, <2>3, <2>4 DEF GoesOn, At
<1>6. CASE \E done \in BOOLEAN : Reload(a, done) \/ Run(a, done)
  <2>1. PICK done \in BOOLEAN : Reload(a, done) \/ Run(a, done)
    BY <1>6
  <2> DEFINE next == IF done THEN "ok" ELSE "failed"
  <2>2. next \in Steps /\ Goes(a, next, FALSE)
    BY <2>1 DEF Reload, Run, Steps
  <2>3. /\ At(a, "reload") \/ At(a, "run")
        /\ UNCHANGED << staged, committed >> /\ air' \in {air, "empty"}
    BY <2>1 DEF Reload, Run
  <2> HIDE DEF next
  <2> QED BY <1>0, <1>1, <2>2, <2>3 DEF GoesOn, At
<1> QED BY <1>2, <1>3, <1>4, <1>5, <1>6 DEF Command

-------------------------------------------------------------------------------
(* Types.                                                                  *)

\* The part of the type invariant that a step of the jobs can disturb.
JobsOK ==
  /\ staged \in Widths /\ committed \in Widths
  /\ air \in Peers \cup {"empty"}
  /\ job \in [Actors -> Jobs]

LoopOK ==
  /\ up \in BOOLEAN
  /\ loop \in LoopStates
  /\ tick \in Ticks
  /\ boosted \in BOOLEAN
  /\ lowCycles \in 0 .. RestoreCycles + 1
  /\ class \in Classes \cup {"other"}
  /\ dryRun \in BOOLEAN /\ asked \in BOOLEAN
  /\ quiet \in 0 .. RestoreCycles
  /\ asleep \in BOOLEAN

InStep == At("loop", "none") <=> loop \notin Busy

LEMMA TypeParts == TickTypeOK <=> JobsOK /\ LoopOK /\ InStep
  BY DEF TickTypeOK, JobsOK, LoopOK, InStep, Busy

LEMMA TypePartsNext == TickTypeOK' <=> JobsOK' /\ LoopOK' /\ InStep'
  BY DEF TickTypeOK, JobsOK, LoopOK, InStep, Busy, At

LEMMA NoJobIsAJob == NoJob \in Jobs /\ NoJob.at = "none" /\ NoJob.then = "keep"
                     /\ ~NoJob.sure /\ ~NoJob.spare
  BY DEF NoJob, Jobs, Actions, Others

LEMMA LoopIsAnActor == "loop" \in Actors /\ \A h \in Handlers : h # "loop" /\ h \in Actors
  BY RadioAssumption DEF Actors

LEMMA TuneActions ==
  /\ "stabilize_latency_and_jitter" \in Actions
  /\ "tune_network_performance" \in Actions
  /\ "boost_wifi_bandwidth" \in Actions
  /\ "revert_wifi_bandwidth" \in Actions
  /\ \A new : Acceleration(new) \in Actions
  BY DEF Actions, Committing, Guarded, Acceleration

\* What a loop's action does that begins when none is running.
LEMMA LoopStarts ==
  ASSUME TickTypeOK, NEW act \in Actions, NEW dry \in BOOLEAN,
         NEW then \in {"keep", "on", "off"}, NEW spare \in BOOLEAN,
         Execute("loop", act, dry, then, spare), loop' \in Busy
  PROVE  JobsOK' /\ InStep'
<1>1. /\ job' \in [Actors -> Jobs] /\ job'["loop"].at # "none"
      /\ UNCHANGED << staged, committed, air >>
  BY ExecuteStarts, LoopIsAnActor
<1> QED BY <1>1 DEF TickTypeOK, JobsOK, InStep, At

\* The first decision of the tick.
LEMMA BandwidthOK ==
  ASSUME TickTypeOK, NEW rate \in Rates, Bandwidth(rate)
  PROVE  TickTypeOK'
<1>1. LoopOK /\ JobsOK /\ InStep /\ RestoreCycles \in Nat \ {0}
  BY TypeParts, TickAssumption
<1>2. quiet' \in 0 .. RestoreCycles /\ NextCycle \in 0 .. RestoreCycles + 1
  BY <1>1 DEF Bandwidth, CountedQuiet, NextCycle, LoopOK
<1>3. /\ tick.dry \in BOOLEAN /\ tick.asked \in BOOLEAN
      /\ UNCHANGED << up, tick, class, boosted, dryRun, asked, asleep >>
  BY <1>1 DEF LoopOK, Ticks, Bandwidth
<1>4. CASE Boost(rate)
  <2>1. JobsOK' /\ InStep'
    BY <1>3, <1>4, LoopStarts, TuneActions DEF Boost, Obey, InLoop, Busy
  <2>2. LoopOK'
    BY <1>1, <1>2, <1>3, <1>4 DEF Boost, InLoop, LoopOK, LoopStates
  <2> QED BY <2>1, <2>2, TypePartsNext
<1>5. CASE Revert(rate)
  <2>1. JobsOK' /\ InStep'
    BY <1>3, <1>5, LoopStarts, TuneActions DEF Revert, Obey, InLoop, Busy
  <2>2. LoopOK'
    BY <1>1, <1>2, <1>3, <1>5 DEF Revert, InLoop, LoopOK, LoopStates
  <2> QED BY <2>1, <2>2, TypePartsNext
<1>6. CASE KeepWidth(rate)
  <2>1. JobsOK' /\ InStep'
    BY <1>1, <1>6 DEF KeepWidth, InLoop, JobsOK, InStep, Busy, At, radioVars
  <2>2. lowCycles' \in 0 .. RestoreCycles + 1
    BY <1>1, <1>2, <1>6 DEF KeepWidth, LoopOK
  <2>3. LoopOK'
    BY <1>1, <1>2, <1>3, <1>6, <2>2 DEF KeepWidth, InLoop, LoopOK, LoopStates
  <2> QED BY <2>1, <2>3, TypePartsNext
<1> QED BY <1>4, <1>5, <1>6 DEF Bandwidth

LEMMA CommandOK ==
  ASSUME TickTypeOK, NEW a \in Actors, Runs(a)
  PROVE  TickTypeOK'
<1>1. LoopOK /\ JobsOK /\ InStep
  BY TypeParts
<1>2. GoesOn(a)
  BY CommandGoesOn DEF Runs
<1>3. JobsOK'
  BY <1>1, <1>2 DEF GoesOn, JobsOK
<1>4. InStep'
  <2>1. job'["loop"].at = "none" <=> job["loop"].at = "none"
    BY <1>2, LoopIsAnActor DEF GoesOn, Steps
  <2> QED BY <1>1, <2>1 DEF InStep, Runs, loopVars, At
<1>5. LoopOK'
  BY <1>1 DEF LoopOK, Runs, loopVars
<1> QED BY <1>3, <1>4, <1>5, TypePartsNext

\* A request that begins, or ends, is none of the loop's.
LEMMA HandlerOK ==
  ASSUME TickTypeOK, NEW h \in Handlers, Answer(h) \/ Asked(h)
  PROVE  TickTypeOK'
<1>1. LoopOK /\ JobsOK /\ InStep /\ h \in Actors /\ h # "loop"
  BY TypeParts, LoopIsAnActor
<1>2. CASE Answer(h)
  <2>1. JobsOK' /\ job'["loop"] = job["loop"]
    BY <1>1, <1>2, NoJobIsAJob DEF Answer, JobsOK
  <2>2. boosted' \in BOOLEAN
    BY <1>1, <1>2 DEF Answer, Flag, LoopOK, JobsOK, Jobs
  <2>3. LoopOK'
    BY <1>1, <1>2, <2>2 DEF Answer, LoopOK, loopVars
  <2>4. InStep'
    BY <1>1, <1>2, <2>1 DEF Answer, InStep, loopVars, At
  <2> QED BY <2>1, <2>3, <2>4, TypePartsNext
<1>3. CASE Asked(h)
  <2>1. \E act \in Actions, dry \in BOOLEAN, then \in {"keep", "on", "off"},
           spare \in BOOLEAN : Execute(h, act, dry, then, spare)
    <3>1. CASE BoostCommand(h)
      BY <3>1, TuneActions DEF BoostCommand
    <3>2. CASE \E act \in RequestActions : Request(h, act) \/ Inject(h, act)
      BY <1>1, <3>2, TickAssumption DEF Request, Inject, LoopOK
    <3> QED BY <1>3, <3>1, <3>2 DEF Asked
  <2>2. /\ job' \in [Actors -> Jobs]
        /\ job'["loop"] = job["loop"]
        /\ UNCHANGED << staged, committed, air >>
    <3>1. PICK act \in Actions, dry \in BOOLEAN, then \in {"keep", "on", "off"},
               spare \in BOOLEAN : Execute(h, act, dry, then, spare)
      BY <2>1
    <3> QED BY <1>1, <3>1, ExecuteStarts, LoopIsAnActor
  <2>3. UNCHANGED requestVars
    BY <1>3 DEF Asked, BoostCommand, Request, Inject
  <2>4. LoopOK'
    BY <1>1, <2>3 DEF LoopOK, requestVars, loopVars
  <2>5. InStep' /\ JobsOK'
    BY <1>1, <2>2, <2>3 DEF InStep, JobsOK, requestVars, loopVars, At
  <2> QED BY <2>4, <2>5, TypePartsNext
<1> QED BY <1>2, <1>3

\* The rest of a tick's steps: what begins an action keeps the type ...
LEMMA TuneOK ==
  ASSUME TickTypeOK, UNCHANGED << up, tick, lowCycles, quiet, boosted, dryRun, asked, asleep >>,
         class' \in Classes \cup {"other"}, loop' \in Busy,
         \/ \E act \in Actions : Tune(act)
         \/ \E act \in HealActions : Obey(act, "keep")
  PROVE  TickTypeOK'
<1>1. LoopOK /\ tick.dry \in BOOLEAN /\ tick.asked \in BOOLEAN
  BY TypeParts DEF LoopOK, Ticks
<1>2. \E act \in Actions, dry \in BOOLEAN, spare \in BOOLEAN :
        Execute("loop", act, dry, "keep", spare)
  BY <1>1, TickAssumption DEF Tune, Obey
<1>3. JobsOK' /\ InStep'
  BY <1>2, LoopStarts
<1>4. LoopOK'
  BY <1>1 DEF LoopOK, LoopStates, Busy
<1> QED BY <1>3, <1>4, TypePartsNext

\* ... what begins none, too ...
LEMMA QuietOK ==
  ASSUME TickTypeOK, UNCHANGED << radioVars, lowCycles, quiet, boosted >>,
         up' \in BOOLEAN, tick' \in Ticks, class' \in Classes \cup {"other"},
         dryRun' \in BOOLEAN, asked' \in BOOLEAN, asleep' \in BOOLEAN,
         \/ loop' = loop
         \/ loop' \in LoopStates \ Busy /\ loop \notin Busy
  PROVE  TickTypeOK'
<1>1. LoopOK /\ JobsOK /\ InStep
  BY TypeParts
<1>2. JobsOK' /\ InStep'
  BY <1>1 DEF JobsOK, InStep, radioVars, At
<1>3. LoopOK'
  BY <1>1 DEF LoopOK
<1> QED BY <1>2, <1>3, TypePartsNext

LEMMA NoTickIsATick == NoTick \in Ticks
  BY DEF NoTick, Ticks

LEMMA LoopQuietOK ==
  ASSUME TickTypeOK, StartTick \/ SkipTick \/ NoAnomaly
  PROVE  TickTypeOK'
<1>1. LoopOK
  BY TypeParts
<1>2. tick' \in Ticks
  BY <1>1, NoTickIsATick DEF StartTick, SkipTick, NoAnomaly, LoopOK, Ticks
<1>3. loop' \in LoopStates \ Busy /\ loop \notin Busy
  BY DEF StartTick, SkipTick, NoAnomaly, InLoop, LoopStates, Busy
<1>4. UNCHANGED << radioVars, up, lowCycles, class, quiet, boosted, dryRun, asked, asleep >>
  BY DEF StartTick, SkipTick, NoAnomaly
<1> QED BY <1>1, <1>2, <1>3, <1>4, QuietOK DEF LoopOK

LEMMA LoopTunesOK ==
  ASSUME TickTypeOK,
         \/ Pace
         \/ \E new \in Classes \cup {"other"} : Accelerate(new)
         \/ \E act \in HealActions : Heal(act)
         \/ Maintain
  PROVE  TickTypeOK'
<1>1. LoopOK
  BY TypeParts
<1>2. CASE Pace
  <2>1. UNCHANGED << up, tick, lowCycles, class, quiet, boosted, dryRun, asked, asleep >>
        /\ loop \notin Busy
    BY <1>2 DEF Pace, Busy
  <2>2. CASE loop' = "accelerate" /\ UNCHANGED radioVars
    BY <1>1, <2>1, <2>2, QuietOK DEF LoopOK, LoopStates, Busy
  <2>3. CASE loop' = "pacing" /\ Tune("stabilize_latency_and_jitter")
    BY <1>1, <2>1, <2>3, TuneOK, TuneActions DEF LoopOK, Busy
  <2> QED BY <1>2, <2>2, <2>3 DEF Pace
<1>3. ASSUME NEW new \in Classes \cup {"other"}, Accelerate(new)
      PROVE  TickTypeOK'
  <2>1. /\ UNCHANGED << up, tick, lowCycles, quiet, boosted, dryRun, asked, asleep >>
        /\ class' = new
        /\ loop \notin Busy
    BY <1>3 DEF Accelerate, Busy
  <2>2. CASE loop' = "detect" /\ UNCHANGED radioVars
    BY <1>1, <2>1, <2>2, QuietOK DEF LoopOK, LoopStates, Busy
  <2>3. CASE loop' = "accelerating" /\ Tune(Acceleration(new))
    BY <1>1, <2>1, <2>3, TuneOK, TuneActions DEF LoopOK, Busy
  <2> QED BY <1>3, <2>2, <2>3 DEF Accelerate
<1>4. ASSUME NEW act \in HealActions, Heal(act)
      PROVE  TickTypeOK'
  BY <1>1, <1>4, TuneOK DEF Heal, InLoop, LoopOK, Busy
<1>5. CASE Maintain
  BY <1>1, <1>5, TuneOK, TuneActions DEF Maintain, InLoop, LoopOK, Busy
<1> QED BY <1>2, <1>3, <1>4, <1>5

LEMMA EndOK ==
  ASSUME TickTypeOK, LoopGoesOn
  PROVE  TickTypeOK'
<1>1. LoopOK /\ JobsOK /\ InStep /\ RestoreCycles \in Nat
  BY TypeParts, TickAssumption
<1>2. JobsOK' /\ job'["loop"].at = "none"
  BY <1>1, NoJobIsAJob, LoopIsAnActor DEF LoopGoesOn, JobsOK
<1>3. loop' \in LoopStates \ Busy
  BY DEF LoopGoesOn, AfterAction, LoopStates, Busy
<1>4. boosted' \in BOOLEAN
  BY <1>1 DEF LoopGoesOn, Flag, LoopOK
<1>5. lowCycles' \in 0 .. RestoreCycles + 1
  BY <1>1 DEF LoopGoesOn, LoopOK
<1>6. tick' \in Ticks
  BY <1>1, NoTickIsATick DEF LoopGoesOn, LoopOK
<1>7. LoopOK'
  BY <1>1, <1>3, <1>4, <1>5, <1>6 DEF LoopGoesOn, LoopOK
<1> QED BY <1>2, <1>3, <1>7, TypePartsNext DEF InStep, At

LEMMA UnsureOK ==
  ASSUME TickTypeOK
  PROVE  [Unsure EXCEPT !["loop"] = NoJob] \in [Actors -> Jobs]
<1>1. job \in [Actors -> Jobs]
  BY DEF TickTypeOK
<1>2. Unsure \in [Actors -> Jobs]
  BY <1>1 DEF Unsure, Jobs
<1> QED BY <1>2, NoJobIsAJob

LEMMA RollbackOK ==
  ASSUME TickTypeOK, NEW width \in Widths, Rollback(width)
  PROVE  TickTypeOK'
<1>1. LoopOK
  BY TypeParts
<1>2. JobsOK' /\ job'["loop"] = NoJob
  BY UnsureOK, LoopIsAnActor DEF Rollback, Restored, JobsOK, Unsure
<1>3. LoopOK' /\ loop' = "select"
  BY <1>1, NoTickIsATick DEF Rollback, LoopOK, LoopStates
<1> QED BY <1>2, <1>3, NoJobIsAJob, TypePartsNext DEF InStep, At, Busy

LEMMA WorldOK ==
  ASSUME TickTypeOK,
         \/ \E file \in Files : ReloadConfig(file) \/ Start(file)
         \/ Die
         \/ LoseStaged
         \/ \E who \in Peers \cup {"empty"} : SomeoneElse(who)
         \/ SleepOrWake
  PROVE  TickTypeOK'
<1>1. LoopOK /\ JobsOK /\ InStep /\ RestoreCycles \in Nat
  BY TypeParts, TickAssumption
<1>2. ASSUME NEW file \in Files, ReloadConfig(file) \/ Start(file)
      PROVE  TickTypeOK'
  <2>1. dryRun' \in BOOLEAN /\ asked' \in BOOLEAN
    BY <1>1, <1>2, TickAssumption DEF ReloadConfig, Start, LoadConfig, LoopOK
  <2> QED BY <1>1, <1>2, <2>1, QuietOK DEF ReloadConfig, Start, loopVars, LoopOK
<1>3. CASE Die
  <2>1. JobsOK' /\ job'["loop"] = NoJob
    BY <1>1, <1>3, NoJobIsAJob, LoopIsAnActor DEF Die, JobsOK
  <2>2. LoopOK' /\ loop' = "select"
    <3>1. /\ up' = FALSE /\ loop' = "select" /\ tick' = NoTick
          /\ boosted' = FALSE /\ lowCycles' = 0 /\ class' = "other" /\ quiet' = 0
          /\ UNCHANGED << dryRun, asked, asleep >>
      BY <1>3 DEF Die
    <3>2. up' \in BOOLEAN /\ boosted' \in BOOLEAN /\ tick' \in Ticks
          /\ loop' \in LoopStates
      BY <3>1, NoTickIsATick DEF LoopStates
    <3>3. lowCycles' \in 0 .. RestoreCycles + 1 /\ quiet' \in 0 .. RestoreCycles
      BY <1>1, <3>1
    <3> QED BY <1>1, <3>1, <3>2, <3>3 DEF LoopOK
  <2> QED BY <2>1, <2>2, NoJobIsAJob, TypePartsNext DEF InStep, At, Busy
<1>4. CASE LoseStaged
  <2>1. JobsOK' /\ InStep'
    BY <1>1, <1>4 DEF LoseStaged, PowerCycle, JobsOK, InStep, loopVars, At
  <2>2. LoopOK'
    BY <1>1, <1>4 DEF LoseStaged, LoopOK, loopVars
  <2> QED BY <2>1, <2>2, TypePartsNext
<1>5. ASSUME NEW who \in Peers \cup {"empty"}, SomeoneElse(who)
      PROVE  TickTypeOK'
  <2>1. job' \in [Actors -> Jobs] /\ job'["loop"].at = job["loop"].at
    BY <1>1, <1>5, LoopIsAnActor DEF SomeoneElse, AirChanges, JobsOK, Jobs
  <2>2. JobsOK' /\ InStep'
    BY <1>1, <1>5, <2>1 DEF SomeoneElse, AirChanges, JobsOK, InStep, loopVars, At
  <2>3. LoopOK'
    BY <1>1, <1>5 DEF SomeoneElse, LoopOK, loopVars
  <2> QED BY <2>2, <2>3, TypePartsNext
<1>6. CASE SleepOrWake
  BY <1>1, <1>6, QuietOK DEF SleepOrWake, loopVars, LoopOK
<1> QED BY <1>2, <1>3, <1>4, <1>5, <1>6

LEMMA TypeStep ==
  ASSUME TickTypeOK, [Next]_vars
  PROVE  TickTypeOK'
<1>1. CASE LoopStep
  BY <1>1, LoopQuietOK, BandwidthOK, LoopTunesOK, RollbackOK, EndOK, CommandOK, LoopIsAnActor
     DEF LoopStep
<1>2. CASE \E h \in Handlers : HandlerStep(h) \/ Asked(h)
  BY <1>2, HandlerOK, CommandOK, LoopIsAnActor DEF HandlerStep
<1>3. CASE UNCHANGED vars
  BY <1>3, TypeParts, QuietOK DEF vars, loopVars, LoopOK
<1> QED BY <1>1, <1>2, <1>3, WorldOK DEF Next

LEMMA TypeInit == Init => TickTypeOK
<1> SUFFICES ASSUME Init PROVE TickTypeOK
  OBVIOUS
<1>1. JobsOK /\ job["loop"].at = "none"
  BY NoJobIsAJob, LoopIsAnActor DEF Init, JobsOK
<1>2. LoopOK /\ InStep
  <2>1. /\ up = FALSE /\ loop = "select" /\ tick = NoTick /\ boosted = FALSE
        /\ lowCycles = 0 /\ class = "other" /\ quiet = 0
        /\ dryRun = FlagDry /\ asked = FlagDry /\ asleep = FALSE
    BY DEF Init
  <2>2. up \in BOOLEAN /\ boosted \in BOOLEAN /\ tick \in Ticks
        /\ asleep \in BOOLEAN /\ dryRun \in BOOLEAN /\ asked \in BOOLEAN
        /\ loop \in LoopStates
    BY <2>1, TickAssumption, NoTickIsATick DEF LoopStates
  <2>3. lowCycles \in 0 .. RestoreCycles + 1 /\ quiet \in 0 .. RestoreCycles
    BY <2>1, TickAssumption
  <2>4. InStep
    BY <1>1, <2>1 DEF InStep, Busy, At
  <2> QED BY <2>1, <2>2, <2>3, <2>4 DEF LoopOK
<1> QED BY <1>1, <1>2, TypeParts

\* Type correctness.
THEOREM TickTypes == Spec => []TickTypeOK
<1>1. TickTypeOK /\ [Next]_vars => TickTypeOK'
  BY TypeStep
<1> QED BY <1>1, TypeInit, PTL DEF Spec

-------------------------------------------------------------------------------
(* The kinds of steps, to what they do to the jobs and the radio.          *)

Then == {"keep", "on", "off"}

Idles ==
  /\ job' = job /\ air' = air
  /\ UNCHANGED << staged, committed >> \/ ~up
  /\ up => up'

Begins(a, act, dry, then, spare) ==
  /\ up /\ up'
  /\ Execute(a, act, dry, then, spare)
  /\ then = "on" => act = "boost_wifi_bandwidth"
  /\ then = "off" => act = "revert_wifi_bandwidth" /\ a = "loop"
  /\ spare => dry

Ends(a) ==
  /\ up /\ up'
  /\ job' = [job EXCEPT ![a] = NoJob]
  /\ UNCHANGED << staged, committed, air >>

SomeBegins ==
  \E a \in Actors, act \in Actions, dry \in BOOLEAN, then \in Then, spare \in BOOLEAN :
    Begins(a, act, dry, then, spare)

Kind ==
  \/ Idles
  \/ SomeBegins
  \/ \E a \in Actors : Runs(a) \/ Ends(a)
  \/ \E width \in Widths : Rollback(width)
  \/ Die
  \/ \E who \in Peers \cup {"empty"} : SomeoneElse(who)

LEMMA TuneBegins ==
  ASSUME NEW act \in Actions, Tune(act), up, up'
  PROVE  SomeBegins
<1>1. Begins("loop", act, FALSE, "keep", FALSE)
  BY DEF Tune, Begins
<1> QED BY <1>1, LoopIsAnActor DEF SomeBegins, Then

LEMMA ObeyBegins ==
  ASSUME NEW act \in Actions, NEW then \in Then, Obey(act, then), up, up',
         tick \in Ticks, tick.dry = tick.asked,
         then = "on" => act = "boost_wifi_bandwidth",
         then = "off" => act = "revert_wifi_bandwidth"
  PROVE  SomeBegins
<1>1. tick.dry \in BOOLEAN /\ tick.asked \in BOOLEAN
  BY DEF Ticks
<1>2. Begins("loop", act, tick.dry, then, tick.asked)
  BY DEF Obey, Begins
<1> QED BY <1>1, <1>2, LoopIsAnActor DEF SomeBegins

LEMMA Kinds ==
  ASSUME TickTypeOK, Dry, [Next]_vars
  PROVE  Kind
<1>0. LoopOK /\ tick.dry = tick.asked /\ dryRun = asked
  BY TypeParts DEF Dry
<1>1. CASE StartTick \/ SkipTick \/ NoAnomaly
  <2> QED BY <1>1 DEF StartTick, SkipTick, NoAnomaly, radioVars, Kind, Idles
<1>2. ASSUME NEW rate \in Rates, Bandwidth(rate) PROVE Kind
  <2>1. up' = up
    BY <1>2 DEF Bandwidth
  <2>2. CASE Boost(rate)
    BY <1>0, <2>1, <2>2, ObeyBegins, TuneActions DEF Boost, InLoop, LoopOK, Kind, Then
  <2>3. CASE Revert(rate)
    BY <1>0, <2>1, <2>3, ObeyBegins, TuneActions DEF Revert, InLoop, LoopOK, Kind, Then
  <2>4. CASE KeepWidth(rate)
    BY <2>1, <2>4 DEF KeepWidth, radioVars, Kind, Idles
  <2> QED BY <1>2, <2>2, <2>3, <2>4 DEF Bandwidth
<1>3. CASE Pace
  <2>1. up /\ up'
    BY <1>3 DEF Pace
  <2>2. CASE UNCHANGED radioVars
    BY <2>1, <2>2 DEF radioVars, Kind, Idles
  <2> QED BY <1>3, <2>1, <2>2, TuneBegins, TuneActions DEF Pace, Kind
<1>4. ASSUME NEW new \in Classes \cup {"other"}, Accelerate(new) PROVE Kind
  <2>1. up /\ up'
    BY <1>4 DEF Accelerate
  <2>2. CASE UNCHANGED radioVars
    BY <2>1, <2>2 DEF radioVars, Kind, Idles
  <2> QED BY <1>4, <2>1, <2>2, TuneBegins, TuneActions DEF Accelerate, Kind
<1>5. ASSUME NEW act \in HealActions, Heal(act) PROVE Kind
  BY <1>0, <1>5, ObeyBegins, TickAssumption DEF Heal, InLoop, LoopOK, Kind, Then
<1>6. CASE Maintain
  BY <1>6, TuneBegins, TuneActions DEF Maintain, InLoop, Kind
<1>7. CASE LoopGoesOn
  BY <1>7, LoopIsAnActor DEF LoopGoesOn, Kind, Ends
<1>8. ASSUME NEW h \in Handlers, Answer(h) PROVE Kind
  BY <1>8, LoopIsAnActor DEF Answer, Kind, Ends
<1>9. ASSUME NEW h \in Handlers, Asked(h) PROVE Kind
  <2>1. up /\ up' /\ h \in Actors
    <3>1. Free(h) /\ UNCHANGED requestVars
      BY <1>9 DEF Asked, BoostCommand, Request, Inject
    <3> QED BY <3>1, LoopIsAnActor DEF Free, requestVars
  <2>2. CASE BoostCommand(h)
    <3>1. Begins(h, "boost_wifi_bandwidth", FALSE, "on", FALSE)
      BY <2>1, <2>2 DEF BoostCommand, Begins
    <3> QED BY <2>1, <3>1, TuneActions DEF Kind, SomeBegins, Then
  <2>3. ASSUME NEW act \in RequestActions, Request(h, act) \/ Inject(h, act)
        PROVE  Kind
    <3>1. \/ Begins(h, act, dryRun, "keep", asked)
          \/ Begins(h, act, FALSE, "keep", FALSE)
      BY <1>0, <2>1, <2>3 DEF Request, Inject, Begins
    <3>2. act \in Actions /\ dryRun \in BOOLEAN /\ asked \in BOOLEAN
      BY <1>0, TickAssumption DEF LoopOK
    <3> QED BY <2>1, <3>1, <3>2 DEF Kind, SomeBegins, Then
  <2> QED BY <1>9, <2>2, <2>3 DEF Asked
<1>10. ASSUME NEW file \in Files, ReloadConfig(file) \/ Start(file) PROVE Kind
  BY <1>10 DEF ReloadConfig, Start, radioVars, Kind, Idles
<1>11. CASE LoseStaged
  BY <1>11 DEF LoseStaged, PowerCycle, Kind, Idles
<1>12. CASE SleepOrWake \/ UNCHANGED vars
  BY <1>12 DEF SleepOrWake, vars, radioVars, Kind, Idles
<1>13. CASE LoopStep
  BY <1>13, <1>1, <1>2, <1>3, <1>4, <1>5, <1>6, <1>7, LoopIsAnActor DEF LoopStep, Kind
<1>14. CASE \E h \in Handlers : HandlerStep(h) \/ Asked(h)
  BY <1>14, <1>8, <1>9, LoopIsAnActor DEF HandlerStep, Kind
<1> QED BY <1>10, <1>11, <1>12, <1>13, <1>14 DEF Next, Kind

-------------------------------------------------------------------------------
(* The invariant, part by part.                                            *)

LEMMA RestingStep ==
  ASSUME TickTypeOK, Resting, Kind
  PROVE  Resting'
<1>0. job \in [Actors -> Jobs] /\ up \in BOOLEAN
  BY DEF TickTypeOK
<1>1. CASE Idles
  BY <1>0, <1>1 DEF Idles, Resting, At
<1>2. CASE SomeBegins
  <2>1. PICK a \in Actors, act \in Actions, dry \in BOOLEAN, then \in Then, spare \in BOOLEAN :
          Begins(a, act, dry, then, spare)
    BY <1>2 DEF SomeBegins
  <2>2. up' /\ job'[a].at # "none" /\ \A b \in Actors \ {a} : job'[b] = job[b]
    BY <2>1, ExecuteStarts DEF Begins, Then
  <2> QED BY <2>2 DEF Resting, At
<1>3. ASSUME NEW a \in Actors, Runs(a) PROVE Resting'
  <2>1. up' /\ GoesOn(a)
    BY <1>3, CommandGoesOn DEF Runs
  <2>2. ASSUME NEW b \in Actors, job'[b].at = "none" PROVE job'[b] = NoJob
    <3>1. b # a /\ job[b] = NoJob
      BY <2>1, <2>2 DEF GoesOn, Steps, Resting, At
    <3>2. /\ job'[b] \in Jobs /\ SameJob(b) /\ ~job'[b].sure
      BY <2>1, <3>1, NoJobIsAJob DEF GoesOn, Jobs
    <3>3. /\ job'[b].action = NoJob.action /\ job'[b].at = NoJob.at
          /\ job'[b].then = NoJob.then /\ job'[b].spare = NoJob.spare
      BY <2>2, <3>1, <3>2, NoJobIsAJob DEF SameJob
    <3>4. job'[b].sure = NoJob.sure
      BY <3>2, NoJobIsAJob DEF Jobs
    <3> QED BY <3>2, <3>3, <3>4, NoJobIsAJob DEF Jobs
  <2> QED BY <2>1, <2>2 DEF Resting, At
<1>4. ASSUME NEW a \in Actors, Ends(a) PROVE Resting'
  BY <1>0, <1>4 DEF Ends, Resting, At
<1>5. ASSUME NEW width \in Widths, Rollback(width) PROVE Resting'
  <2>1. up'
    BY <1>5 DEF Rollback
  <2>2. ASSUME NEW b \in Actors, b # "loop"
        PROVE  job'[b] = [job[b] EXCEPT !.sure = FALSE]
    BY <1>5, <2>2 DEF Rollback, Unsure
  <2>3. job'["loop"] = NoJob
    BY <1>5, LoopIsAnActor DEF Rollback, Unsure
  <2>4. ASSUME NEW b \in Actors, b # "loop", job'[b].at = "none"
        PROVE  job'[b] = NoJob
    <3>1. job[b].at = "none"
      BY <1>0, <2>2, <2>4 DEF Jobs
    <3>2. job[b] = NoJob
      BY <3>1 DEF Resting, At
    <3> QED BY <2>2, <2>4, <3>2 DEF NoJob
  <2> QED BY <2>1, <2>3, <2>4 DEF Resting, At
<1>6. CASE Die
  BY <1>6 DEF Die, Resting
<1>7. ASSUME NEW who \in Peers \cup {"empty"}, SomeoneElse(who) PROVE Resting'
  <2>1. ASSUME NEW b \in Actors
        PROVE  /\ job'[b] = job[b] \/ job'[b] = [job[b] EXCEPT !.sure = FALSE]
               /\ At(b, "none") => job'[b] = job[b]
    BY <1>7 DEF SomeoneElse, AirChanges, At
  <2>2. up' = up
    BY <1>7 DEF SomeoneElse
  <2>3. ASSUME NEW b \in Actors, job'[b].at = "none" PROVE job'[b] = NoJob
    BY <1>0, <2>1, <2>3 DEF Resting, At, Jobs
  <2>4. ~up => job' = job
    <3> SUFFICES ASSUME ~up PROVE job' = job
      OBVIOUS
    <3>1. \A b \in Actors : job'[b] = job[b]
      BY <2>1, NoJobIsAJob DEF Resting, At
    <3>2. job' = [b \in Actors |-> job'[b]]
      BY <1>7 DEF SomeoneElse, AirChanges
    <3> QED BY <1>0, <3>1, <3>2
  <2> QED BY <2>2, <2>3, <2>4 DEF Resting, At
<1> QED BY <1>1, <1>2, <1>3, <1>4, <1>5, <1>6, <1>7 DEF Kind

\* Dry runs stay dry: no command changes the caller's intent, and none is run
\* once an action has ended.
LEMMA DryRunStep ==
  ASSUME TickTypeOK, Dry, Kind
  PROVE  DryRunAsAsked'
<1>0. job \in [Actors -> Jobs] /\ DryRunAsAsked
  BY DEF TickTypeOK, Dry
<1>1. CASE Idles
  BY <1>0, <1>1 DEF Idles, DryRunAsAsked, At
<1>2. CASE SomeBegins
  <2>1. PICK a \in Actors, act \in Actions, dry \in BOOLEAN, then \in Then, spare \in BOOLEAN :
          Begins(a, act, dry, then, spare)
    BY <1>2 DEF SomeBegins
  <2>2. job'[a] = NewJob(act, dry, then, spare) /\ \A b \in Actors \ {a} : job'[b] = job[b]
    BY <2>1, ExecuteStarts DEF Begins, Then
  <2>3. job'[a].spare => job'[a].at = "ok"
    BY <2>1, <2>2 DEF NewJob, Begins
  <2> QED BY <1>0, <2>2, <2>3 DEF DryRunAsAsked, At
<1>3. ASSUME NEW a \in Actors, Runs(a) PROVE DryRunAsAsked'
  <2>1. GoesOn(a)
    BY <1>3, CommandGoesOn DEF Runs
  <2> QED BY <1>0, <2>1 DEF GoesOn, SameJob, DryRunAsAsked, At
<1>4. ASSUME NEW a \in Actors, Ends(a) PROVE DryRunAsAsked'
  BY <1>0, <1>4, NoJobIsAJob DEF Ends, DryRunAsAsked, At
<1>5. ASSUME NEW width \in Widths, Rollback(width) PROVE DryRunAsAsked'
  <2>1. job' = [Unsure EXCEPT !["loop"] = NoJob]
    BY <1>5 DEF Rollback
  <2>2. ASSUME NEW b \in Actors
        PROVE  /\ job'[b].spare => job[b].spare
               /\ job'[b].spare => job'[b].at = job[b].at
    BY <1>0, <2>1, NoJobIsAJob DEF Unsure, Jobs
  <2> QED BY <1>0, <2>2 DEF DryRunAsAsked, At
<1>6. CASE Die
  BY <1>6, NoJobIsAJob DEF Die, DryRunAsAsked
<1>7. ASSUME NEW who \in Peers \cup {"empty"}, SomeoneElse(who) PROVE DryRunAsAsked'
  <2>1. ASSUME NEW b \in Actors
        PROVE  job'[b].spare = job[b].spare /\ job'[b].at = job[b].at
    BY <1>0, <1>7 DEF SomeoneElse, AirChanges, Jobs
  <2> QED BY <1>0, <2>1 DEF DryRunAsAsked, At
<1> QED BY <1>1, <1>2, <1>3, <1>4, <1>5, <1>6, <1>7 DEF Kind

LEMMA DryStep ==
  ASSUME TickTypeOK, Dry, [Next]_vars
  PROVE  Dry'
<1>1. DryRunAsAsked'
  BY Kinds, DryRunStep
<1>2. CASE \/ UNCHANGED << dryRun, asked, tick >>
           \/ UNCHANGED << dryRun, asked >> /\ tick' = NoTick
  <2>1. NoTick.dry = NoTick.asked
    BY DEF NoTick
  <2> QED BY <1>1, <1>2, <2>1 DEF Dry
<1>3. CASE StartTick
  BY <1>1, <1>3 DEF StartTick, Dry
<1>4. ASSUME NEW file \in Files, ReloadConfig(file) \/ Start(file)
      PROVE  Dry'
  BY <1>1, <1>4 DEF ReloadConfig, Start, LoadConfig, Dry, loopVars
<1>5. CASE LoopStep
  BY <1>2, <1>3, <1>5
     DEF LoopStep, SkipTick, NoAnomaly, Bandwidth, Pace, Accelerate, Heal, Rollback,
         Maintain, LoopGoesOn, Runs, loopVars
<1>6. CASE \E h \in Handlers : HandlerStep(h) \/ Asked(h)
  BY <1>2, <1>6
     DEF HandlerStep, Asked, Answer, Runs, BoostCommand, Request, Inject, requestVars, loopVars
<1>7. CASE Die \/ LoseStaged \/ SleepOrWake \/ UNCHANGED vars
           \/ \E who \in Peers \cup {"empty"} : SomeoneElse(who)
  BY <1>2, <1>7 DEF Die, LoseStaged, SleepOrWake, SomeoneElse, vars, loopVars
<1> QED BY <1>4, <1>5, <1>6, <1>7 DEF Next

\* Nothing but a second look at the air leads to a reload, and a look with
\* every answer sees who is there.
LEMMA LooksBeforeReload ==
  ASSUME TickTypeOK, NEW a \in Actors, Command(a),
         job'[a].at = "reload", job'[a].sure
  PROVE  air = "empty"
<1>0. job \in [Actors -> Jobs] /\ air \in Peers \cup {"empty"}
  BY DEF TickTypeOK
<1>1. ASSUME NEW at, NEW sure \in BOOLEAN, Goes(a, at, sure)
      PROVE  job'[a].at = at /\ job'[a].sure = sure
  BY <1>0, <1>1 DEF Goes, Jobs
<1>2. \A answers \in Answers : ~Guard(a, answers)
  BY <1>1 DEF Guard
<1>3. \A ok \in BOOLEAN : ~Reload(a, ok) /\ ~Run(a, ok)
  BY <1>1 DEF Reload, Run
<1>4. \A ok \in BOOLEAN : ~Set(a, ok)
  <2> SUFFICES ASSUME NEW ok \in BOOLEAN, Set(a, ok) PROVE FALSE
    OBVIOUS
  <2>1. job'[a].at = "commit"
    BY <1>0 DEF Set, Jobs
  <2> QED BY <2>1
<1>5. \A ok \in BOOLEAN : ~Commit(a, ok)
  <2> SUFFICES ASSUME NEW ok \in BOOLEAN, Commit(a, ok) PROVE FALSE
    OBVIOUS
  <2>1. job[a].sure \in BOOLEAN
    BY <1>0 DEF Jobs
  <2>2. job'[a].at = AfterCommit(job[a].action, ok)
    BY <1>1, <2>1 DEF Commit
  <2> QED BY <2>2 DEF AfterCommit
<1>6. PICK answers \in Answers : Recheck(a, answers)
  BY <1>2, <1>3, <1>4, <1>5 DEF Command
<1>7. /\ job'[a].at = IF Seen(answers) # "empty" THEN "failed" ELSE "reload"
      /\ job'[a].sure = (answers = Peers)
  BY <1>1, <1>6 DEF Recheck
<1>8. answers = Peers /\ Seen(answers) = "empty"
  BY <1>7
<1> QED BY <1>0, <1>8 DEF Seen

LEMMA SparesStep ==
  ASSUME TickTypeOK, ReloadSparesStations, Kind
  PROVE  ReloadSparesStations'
<1>0. job \in [Actors -> Jobs]
  BY DEF TickTypeOK
<1>1. CASE Idles
  BY <1>1 DEF Idles, ReloadSparesStations, At
<1>2. CASE SomeBegins
  <2>1. PICK a \in Actors, act \in Actions, dry \in BOOLEAN, then \in Then, spare \in BOOLEAN :
          Begins(a, act, dry, then, spare)
    BY <1>2 DEF SomeBegins
  <2>2. /\ job'[a] = NewJob(act, dry, then, spare)
        /\ \A b \in Actors \ {a} : job'[b] = job[b]
        /\ air' = air
    BY <2>1, ExecuteStarts DEF Begins, Then
  <2>3. ~job'[a].sure
    BY <2>2 DEF NewJob
  <2> QED BY <2>2, <2>3 DEF ReloadSparesStations, At
<1>3. ASSUME NEW a \in Actors, Runs(a) PROVE ReloadSparesStations'
  <2>1. GoesOn(a)
    BY <1>3, CommandGoesOn DEF Runs
  <2>2. job'[a].at = "reload" /\ job'[a].sure => air = "empty"
    BY <1>3, LooksBeforeReload DEF Runs
  <2> QED BY <2>1, <2>2 DEF GoesOn, ReloadSparesStations, At
<1>4. ASSUME NEW a \in Actors, Ends(a) PROVE ReloadSparesStations'
  BY <1>0, <1>4, NoJobIsAJob DEF Ends, ReloadSparesStations, At
<1>5. ASSUME NEW width \in Widths, Rollback(width) PROVE ReloadSparesStations'
  BY <1>5 DEF Rollback, ReloadSparesStations
<1>6. CASE Die
  BY <1>6, NoJobIsAJob DEF Die, ReloadSparesStations, At
<1>7. ASSUME NEW who \in Peers \cup {"empty"}, SomeoneElse(who) PROVE ReloadSparesStations'
  <2>1. ASSUME NEW b \in Actors
        PROVE  /\ job'[b].at = job[b].at
               /\ who # "empty" /\ job'[b].at = "reload" => ~job'[b].sure
    BY <1>0, <1>7 DEF SomeoneElse, AirChanges, Jobs, At
  <2>2. air' = who
    BY <1>7 DEF SomeoneElse, AirChanges
  <2> QED BY <2>1, <2>2 DEF ReloadSparesStations, At
<1> QED BY <1>1, <1>2, <1>3, <1>4, <1>5, <1>6, <1>7 DEF Kind

\* Who is still sure of its width after another's command has not had it
\* changed.
LEMMA OthersKeepWidth ==
  ASSUME TickTypeOK, NEW a \in Actors, Command(a), NEW b \in Actors, b # a,
         job'[b].sure
  PROVE  staged' = staged /\ committed' \in {committed, staged}
<1>0. job \in [Actors -> Jobs]
  BY DEF TickTypeOK
<1>1. ASSUME NEW ok \in BOOLEAN, Set(a, ok) PROVE staged' = staged /\ committed' = committed
  <2>1. job'[b] = [job[b] EXCEPT !.sure = @ /\ ~ok]
    BY <1>1 DEF Set
  <2>2. ~ok
    BY <1>0, <2>1 DEF Jobs
  <2> QED BY <1>1, <2>2 DEF Set
<1>2. ASSUME NEW ok \in BOOLEAN, Commit(a, ok)
      PROVE  staged' = staged /\ committed' \in {committed, staged}
  BY <1>2 DEF Commit
<1> QED BY <1>1, <1>2 DEF Command, Guard, Recheck, Reload, Run

\* The commit of a boost or revert that succeeds writes what is staged.
LEMMA CommandWrites ==
  ASSUME TickTypeOK, Written, NEW a \in Actors, Command(a), job[a].then # "keep",
         job'[a].sure, job'[a].at \in {"commit", "ok"}
  PROVE  /\ staged' = WidthOf(job[a].action)
         /\ job'[a].at = "ok" => committed' = staged'
<1>0. job \in [Actors -> Jobs] /\ job[a].then \in {"on", "off"}
  BY DEF TickTypeOK, Jobs
<1>1. ASSUME NEW at, NEW sure \in BOOLEAN, Goes(a, at, sure)
      PROVE  job'[a].at = at /\ job'[a].sure = sure
  BY <1>0, <1>1 DEF Goes, Jobs
<1>2. \A answers \in Answers : ~Guard(a, answers)
  BY <1>1 DEF Guard
<1>3. \A ok \in BOOLEAN : ~Reload(a, ok) /\ ~Run(a, ok)
  BY <1>1 DEF Reload, Run
<1>4. \A answers \in Answers : ~Recheck(a, answers)
  <2> SUFFICES ASSUME NEW answers \in Answers, Recheck(a, answers) PROVE FALSE
    OBVIOUS
  <2> DEFINE sees == answers = Peers
  <2>1. sees \in BOOLEAN /\ Goes(a, IF Seen(answers) # "empty" THEN "failed" ELSE "reload", sees)
    BY DEF Recheck
  <2> HIDE DEF sees
  <2>2. job'[a].at = IF Seen(answers) # "empty" THEN "failed" ELSE "reload"
    BY <1>1, <2>1
  <2> QED BY <2>2
<1>5. ASSUME NEW ok \in BOOLEAN, Set(a, ok)
      PROVE  staged' = WidthOf(job[a].action) /\ job'[a].at # "ok"
  <2>1. job'[a].at = "commit" /\ job'[a].sure = ok
    BY <1>0, <1>5 DEF Set, Jobs
  <2> QED BY <1>5, <2>1 DEF Set
<1>6. ASSUME NEW ok \in BOOLEAN, Commit(a, ok)
      PROVE  staged' = WidthOf(job[a].action) /\ committed' = staged'
  <2>1. job[a].action \in {"boost_wifi_bandwidth", "revert_wifi_bandwidth"}
    BY <1>0 DEF Written
  <2>2. job[a].sure \in BOOLEAN
    BY <1>0 DEF Jobs
  <2>3. /\ job'[a].at = AfterCommit(job[a].action, ok)
        /\ job'[a].sure = job[a].sure
    BY <1>1, <1>6, <2>2 DEF Commit
  <2>4. ok
    BY <2>1, <2>3 DEF AfterCommit, Reloading, CommitMatters
  <2>5. staged = WidthOf(job[a].action)
    BY <1>6, <2>3 DEF Commit, At, Written
  <2> QED BY <1>6, <2>4, <2>5 DEF Commit
<1> QED BY <1>2, <1>3, <1>4, <1>5, <1>6 DEF Command

LEMMA WrittenStep ==
  ASSUME TickTypeOK, Resting, Written, Kind
  PROVE  Written'
<1>0. job \in [Actors -> Jobs]
  BY DEF TickTypeOK
<1>1. CASE Idles
  <2>1. CASE UNCHANGED << staged, committed >>
    BY <1>1, <2>1 DEF Idles, Written, At
  <2>2. CASE ~up
    <3>1. \A b \in Actors : job'[b] = NoJob
      BY <1>1, <2>2 DEF Idles, Resting
    <3> QED BY <3>1, NoJobIsAJob DEF Written, At
  <2> QED BY <1>1, <2>1, <2>2 DEF Idles
<1>2. CASE SomeBegins
  <2>1. PICK a \in Actors, act \in Actions, dry \in BOOLEAN, then \in Then, spare \in BOOLEAN :
          Begins(a, act, dry, then, spare)
    BY <1>2 DEF SomeBegins
  <2>2. /\ job'[a] = NewJob(act, dry, then, spare)
        /\ \A b \in Actors \ {a} : job'[b] = job[b]
        /\ UNCHANGED << staged, committed >>
    BY <2>1, ExecuteStarts DEF Begins, Then
  <2>3. ~job'[a].sure /\ job'[a].then = then /\ job'[a].action = act
    BY <2>2 DEF NewJob
  <2> QED BY <2>1, <2>2, <2>3 DEF Begins, Written, At
<1>3. ASSUME NEW a \in Actors, Runs(a) PROVE Written'
  <2>1. GoesOn(a) /\ Command(a)
    BY <1>3, CommandGoesOn DEF Runs
  <2>2. ASSUME NEW b \in Actors
        PROVE  /\ job'[b].then = "on"  => job'[b].action = "boost_wifi_bandwidth"
               /\ job'[b].then = "off" => job'[b].action = "revert_wifi_bandwidth"
    BY <2>1 DEF GoesOn, SameJob, Written
  <2>3. ASSUME NEW b \in Actors, job'[b].then # "keep", job'[b].sure,
               job'[b].at \in {"commit", "ok"}
        PROVE  /\ staged' = WidthOf(job'[b].action)
               /\ job'[b].at = "ok" => committed' = staged'
    <3>1. job[b].then # "keep" /\ job'[b].action = job[b].action
      BY <2>1, <2>3 DEF GoesOn, SameJob
    <3>2. CASE b = a
      BY <2>1, <2>3, <3>1, <3>2, CommandWrites
    <3>3. CASE b # a
      <4>1. job[b].sure /\ job'[b].at = job[b].at
        BY <2>1, <2>3, <3>3 DEF GoesOn
      <4>2. staged' = staged /\ committed' \in {committed, staged}
        BY <2>1, <2>3, <3>3, OthersKeepWidth
      <4> QED BY <2>3, <3>1, <4>1, <4>2 DEF Written, At
    <3> QED BY <3>2, <3>3
  <2> QED BY <2>2, <2>3 DEF Written, At
<1>4. ASSUME NEW a \in Actors, Ends(a) PROVE Written'
  BY <1>0, <1>4, NoJobIsAJob DEF Ends, Written, At
<1>5. ASSUME NEW width \in Widths, Rollback(width) PROVE Written'
  <2>1. job' = [Unsure EXCEPT !["loop"] = NoJob]
    BY <1>5 DEF Rollback
  <2>2. ASSUME NEW b \in Actors
        PROVE  /\ ~job'[b].sure
               /\ job'[b] = NoJob \/ /\ job'[b].then = job[b].then
                                     /\ job'[b].action = job[b].action
    BY <1>0, <2>1, NoJobIsAJob DEF Unsure, Jobs
  <2> QED BY <2>2, NoJobIsAJob DEF Written
<1>6. CASE Die
  BY <1>6, NoJobIsAJob DEF Die, Written, At
<1>7. ASSUME NEW who \in Peers \cup {"empty"}, SomeoneElse(who) PROVE Written'
  <2>1. ASSUME NEW b \in Actors
        PROVE  /\ job'[b].then = job[b].then
               /\ job'[b].action = job[b].action
               /\ job'[b].at = job[b].at
               /\ job'[b].sure => job[b].sure
    BY <1>0, <1>7 DEF SomeoneElse, AirChanges, Jobs
  <2>2. UNCHANGED << staged, committed >>
    BY <1>7 DEF SomeoneElse, AirChanges
  <2> QED BY <2>1, <2>2 DEF Written, At
<1> QED BY <1>1, <1>2, <1>3, <1>4, <1>5, <1>6, <1>7 DEF Kind

\* What is not the first decision of a tick does not give the loop a job that
\* takes the flag away, nor does it count.
Uncounted ==
  /\ job'["loop"].then \in {job["loop"].then, "keep"}
  /\ UNCHANGED quiet

LEMMA TuneIsUncounted ==
  ASSUME TickTypeOK, NEW act \in Actions, NEW dry \in BOOLEAN, NEW spare \in BOOLEAN,
         Execute("loop", act, dry, "keep", spare), UNCHANGED quiet
  PROVE  Uncounted
<1>1. job'["loop"] = NewJob(act, dry, "keep", spare)
  BY ExecuteStarts, LoopIsAnActor
<1> QED BY <1>1 DEF Uncounted, NewJob

LEMMA OtherStepsUncounted ==
  ASSUME TickTypeOK,
         \/ Pace
         \/ \E new \in Classes \cup {"other"} : Accelerate(new)
         \/ \E act \in HealActions : Heal(act)
         \/ Maintain
  PROVE  Uncounted
<1>0. tick.dry \in BOOLEAN /\ tick.asked \in BOOLEAN
  BY DEF TickTypeOK, Ticks
<1>1. UNCHANGED quiet
  BY DEF Pace, Accelerate, Heal, Maintain
<1>2. \/ UNCHANGED radioVars
      \/ \E act \in Actions, dry \in BOOLEAN, spare \in BOOLEAN :
           Execute("loop", act, dry, "keep", spare)
  BY <1>0, TuneActions, TickAssumption DEF Pace, Accelerate, Heal, Maintain, Tune, Obey
<1> QED BY <1>1, <1>2, TuneIsUncounted DEF radioVars, Uncounted

\* No request takes the flag away.
LEMMA RequestsKeepFlag ==
  ASSUME TickTypeOK, Earned, Kind
  PROVE  \A h \in Handlers : job'[h].then # "off"
<1>0. job \in [Actors -> Jobs]
  BY DEF TickTypeOK
<1> SUFFICES ASSUME NEW h \in Handlers PROVE job'[h].then # "off"
  OBVIOUS
<1>1. h \in Actors /\ h # "loop" /\ job[h].then # "off"
  BY LoopIsAnActor DEF Earned
<1>2. CASE Idles
  BY <1>1, <1>2 DEF Idles
<1>3. CASE SomeBegins
  <2>1. PICK a \in Actors, act \in Actions, dry \in BOOLEAN, then \in Then, spare \in BOOLEAN :
          Begins(a, act, dry, then, spare)
    BY <1>3 DEF SomeBegins
  <2>2. /\ job'[a] = NewJob(act, dry, then, spare)
        /\ \A b \in Actors \ {a} : job'[b] = job[b]
    BY <2>1, ExecuteStarts DEF Begins, Then
  <2>3. job'[a].then = then
    BY <2>2 DEF NewJob
  <2> QED BY <1>1, <2>1, <2>2, <2>3 DEF Begins
<1>4. ASSUME NEW a \in Actors, Runs(a) PROVE job'[h].then # "off"
  BY <1>1, <1>4, CommandGoesOn DEF Runs, GoesOn, SameJob
<1>5. ASSUME NEW a \in Actors, Ends(a) PROVE job'[h].then # "off"
  BY <1>0, <1>1, <1>5, NoJobIsAJob DEF Ends
<1>6. ASSUME NEW width \in Widths, Rollback(width) PROVE job'[h].then # "off"
  BY <1>0, <1>1, <1>6 DEF Rollback, Unsure, Jobs
<1>7. CASE Die
  BY <1>1, <1>7, NoJobIsAJob DEF Die
<1>8. ASSUME NEW who \in Peers \cup {"empty"}, SomeoneElse(who) PROVE job'[h].then # "off"
  BY <1>0, <1>1, <1>8 DEF SomeoneElse, AirChanges, Jobs
<1> QED BY <1>2, <1>3, <1>4, <1>5, <1>6, <1>7, <1>8 DEF Kind

LEMMA EarnedElsewhere ==
  ASSUME TickTypeOK, Earned, Kind, Uncounted, UNCHANGED << lowCycles, boosted >>,
         loop' = "sampled" => UNCHANGED << loop, tick >> \/ tick'.boosted = boosted
  PROVE  Earned'
<1>1. \A h \in Handlers : job'[h].then # "off"
  BY RequestsKeepFlag
<1> QED BY <1>1 DEF Earned, Uncounted

\* The first decision of a tick: lowCycles grows with quiet only.
LEMMA EarnedBandwidth ==
  ASSUME TickTypeOK, Resting, Earned, Kind, NEW rate \in Rates, Bandwidth(rate)
  PROVE  Earned'
<1>0. /\ job \in [Actors -> Jobs] /\ boosted \in BOOLEAN
      /\ tick.boosted \in BOOLEAN /\ tick.dry \in BOOLEAN /\ tick.asked \in BOOLEAN
  BY DEF TickTypeOK, Ticks
<1>1. /\ lowCycles \in 0 .. RestoreCycles + 1 /\ quiet \in 0 .. RestoreCycles
      /\ RestoreCycles \in Nat \ {0}
  BY TickAssumption DEF TickTypeOK
<1>2. /\ UNCHANGED << tick, boosted >> /\ loop = "sampled" /\ loop' # "sampled"
      /\ tick.boosted => boosted
      /\ ~tick.boosted => lowCycles = 0
  BY DEF Bandwidth, Boost, Revert, KeepWidth, InLoop, Earned
<1>3. \A h \in Handlers : job'[h].then # "off"
  BY RequestsKeepFlag
<1>4. CASE Boost(rate)
  <2>1. job'["loop"].then = "on"
    <3>1. job'["loop"] = NewJob("boost_wifi_bandwidth", tick.dry, "on", tick.asked)
      BY <1>0, <1>4, ExecuteStarts, LoopIsAnActor, TuneActions DEF Boost, Obey
    <3> QED BY <3>1 DEF NewJob
  <2>2. lowCycles' = 0 /\ quiet' \in Nat
    BY <1>1, <1>2, <1>4 DEF Boost, Bandwidth, CountedQuiet
  <2>3. lowCycles' <= quiet'
    BY <2>2
  <2> QED BY <1>2, <1>3, <2>1, <2>2, <2>3 DEF Earned
<1>5. CASE Revert(rate)
  <2>1. lowCycles' = NextCycle /\ lowCycles' >= RestoreCycles /\ rate.low
        /\ quiet' = IF quiet < RestoreCycles THEN quiet + 1 ELSE quiet
    BY <1>5 DEF Revert, RevertDue, Bandwidth, CountedQuiet
  <2>2. lowCycles <= quiet \/ quiet = RestoreCycles
    BY DEF Earned
  <2>3. quiet' = RestoreCycles
    BY <1>1, <2>1, <2>2 DEF NextCycle
  <2>4. boosted'
    BY <1>2, <1>5 DEF Revert
  <2> QED BY <1>2, <1>3, <2>3, <2>4 DEF Earned
<1>6. CASE KeepWidth(rate)
  <2>1. job'["loop"].then \in {"keep", "on", "off"} /\ job' = job
    BY <1>0, <1>6, LoopIsAnActor DEF KeepWidth, radioVars, Jobs
  <2>2. job["loop"].then # "off"
    <3>1. At("loop", "none")
      BY <1>2 DEF TickTypeOK, Busy
    <3> QED BY <3>1, LoopIsAnActor, NoJobIsAJob DEF Resting
  <2>3. CASE ~tick.boosted
    <3>1. lowCycles' = 0 /\ quiet' \in Nat
      BY <1>1, <1>2, <1>6, <2>3 DEF KeepWidth, Bandwidth, CountedQuiet
    <3>2. lowCycles' <= quiet'
      BY <3>1
    <3> QED BY <1>2, <1>3, <2>1, <2>2, <3>1, <3>2 DEF Earned
  <2>4. CASE tick.boosted
    <3>1. boosted'
      BY <1>2, <2>4
    <3>2. lowCycles' <= quiet' \/ quiet' = RestoreCycles
      <4>1. CASE ~rate.low
        BY <1>1, <1>6, <2>4, <4>1 DEF KeepWidth, Bandwidth, CountedQuiet
      <4>2. CASE rate.low
        <5>1. lowCycles <= quiet \/ quiet = RestoreCycles
          BY DEF Earned
        <5>2. /\ lowCycles' = NextCycle
              /\ quiet' = IF quiet < RestoreCycles THEN quiet + 1 ELSE quiet
          BY <1>6, <2>4, <4>2 DEF KeepWidth, Bandwidth, CountedQuiet
        <5> QED BY <1>1, <5>1, <5>2 DEF NextCycle
      <4> QED BY <4>1, <4>2
    <3> QED BY <1>2, <1>3, <2>1, <2>2, <3>1, <3>2 DEF Earned
  <2> QED BY <1>0, <2>3, <2>4
<1> QED BY <1>4, <1>5, <1>6 DEF Bandwidth

\* What the loop makes of its action, and a handler of its own.
LEMMA EarnedFlag ==
  ASSUME TickTypeOK, Earned, Kind, LoopGoesOn \/ \E h \in Handlers : Answer(h)
  PROVE  Earned'
<1>0. job \in [Actors -> Jobs] /\ boosted \in BOOLEAN /\ NoJob.then = "keep"
  BY NoJobIsAJob DEF TickTypeOK
<1>1. lowCycles \in Nat /\ quiet \in Nat
  BY TickAssumption DEF TickTypeOK
<1>2. \A h \in Handlers : job'[h].then # "off"
  BY RequestsKeepFlag
<1>3. CASE LoopGoesOn
  <2>1. job'["loop"].then = "keep" /\ UNCHANGED quiet
    BY <1>0, <1>3, LoopIsAnActor DEF LoopGoesOn
  <2>2. loop' # "sampled"
    BY <1>3 DEF LoopGoesOn, AfterAction
  <2>3. lowCycles' = 0 \/ UNCHANGED << lowCycles, boosted >>
    BY <1>3 DEF LoopGoesOn, Flag
  <2> QED BY <1>1, <1>2, <2>1, <2>2, <2>3 DEF Earned
<1>4. ASSUME NEW h \in Handlers, Answer(h) PROVE Earned'
  <2>1. h \in Actors /\ h # "loop" /\ job[h].then \in {"keep", "on"}
    BY <1>0, LoopIsAnActor DEF Earned, Jobs
  <2>2. job'["loop"] = job["loop"] /\ UNCHANGED << loop, tick, lowCycles, quiet >>
    BY <1>0, <1>4, <2>1, LoopIsAnActor DEF Answer, loopVars
  <2>3. boosted => boosted'
    BY <1>4, <2>1 DEF Answer, Flag
  <2> QED BY <1>2, <2>2, <2>3 DEF Earned
<1> QED BY <1>3, <1>4

LEMMA EarnedStep ==
  ASSUME TickTypeOK, Resting, Earned, Dry, [Next]_vars
  PROVE  Earned'
<1>0. Kind /\ job \in [Actors -> Jobs]
  BY Kinds DEF TickTypeOK
<1>1. CASE StartTick \/ SkipTick \/ NoAnomaly
  <2>1. Uncounted /\ UNCHANGED << lowCycles, boosted >>
    BY <1>1 DEF StartTick, SkipTick, NoAnomaly, Uncounted, radioVars
  <2>2. loop' = "sampled" => tick'.boosted = boosted
    BY <1>1 DEF StartTick, SkipTick, NoAnomaly, InLoop
  <2> QED BY <1>0, <2>1, <2>2, EarnedElsewhere
<1>2. CASE \/ Pace
           \/ \E new \in Classes \cup {"other"} : Accelerate(new)
           \/ \E act \in HealActions : Heal(act)
           \/ Maintain
  <2>1. Uncounted
    BY <1>2, OtherStepsUncounted
  <2>2. UNCHANGED << lowCycles, boosted >> /\ loop' # "sampled"
    BY <1>2 DEF Pace, Accelerate, Heal, Maintain, InLoop
  <2> QED BY <1>0, <2>1, <2>2, EarnedElsewhere
<1>3. ASSUME NEW width \in Widths, Rollback(width) PROVE Earned'
  <2>1. job'["loop"].then = "keep"
    BY <1>3, LoopIsAnActor, NoJobIsAJob DEF Rollback, Unsure
  <2>2. UNCHANGED << lowCycles, boosted, quiet >> /\ loop' # "sampled"
    BY <1>3 DEF Rollback
  <2> QED BY <1>0, <2>1, <2>2, EarnedElsewhere DEF Uncounted
<1>4. ASSUME NEW a \in Actors, Runs(a) PROVE Earned'
  <2>1. job'["loop"].then = job["loop"].then
    BY <1>4, CommandGoesOn, LoopIsAnActor DEF Runs, GoesOn, SameJob
  <2>2. UNCHANGED << lowCycles, boosted, quiet, loop, tick >>
    BY <1>4 DEF Runs, loopVars
  <2> QED BY <1>0, <2>1, <2>2, EarnedElsewhere DEF Uncounted
<1>5. ASSUME NEW h \in Handlers, Asked(h) PROVE Earned'
  <2>1. UNCHANGED << lowCycles, boosted, quiet, loop, tick >>
    BY <1>5 DEF Asked, BoostCommand, Request, Inject, requestVars, loopVars
  <2>2. job'["loop"] = job["loop"]
    BY <1>0, <1>5, LoopIsAnActor DEF Asked, BoostCommand, Request, Inject, Execute
  <2> QED BY <1>0, <2>1, <2>2, EarnedElsewhere DEF Uncounted
<1>6. CASE \/ \E file \in Files : ReloadConfig(file) \/ Start(file)
           \/ LoseStaged \/ SleepOrWake \/ UNCHANGED vars
  <2>1. UNCHANGED << job, lowCycles, boosted, quiet, loop, tick >>
    BY <1>6 DEF ReloadConfig, Start, LoseStaged, PowerCycle, SleepOrWake, vars, radioVars,
                loopVars
  <2> QED BY <1>0, <2>1, EarnedElsewhere DEF Uncounted
<1>7. ASSUME NEW who \in Peers \cup {"empty"}, SomeoneElse(who) PROVE Earned'
  <2>1. job'["loop"].then = job["loop"].then
    BY <1>0, <1>7, LoopIsAnActor DEF SomeoneElse, AirChanges, Jobs
  <2>2. UNCHANGED << lowCycles, boosted, quiet, loop, tick >>
    BY <1>7 DEF SomeoneElse, loopVars
  <2> QED BY <1>0, <2>1, <2>2, EarnedElsewhere DEF Uncounted
<1>8. CASE Die
  <2>1. /\ job' = [a \in Actors |-> NoJob] /\ lowCycles' = 0 /\ quiet' = 0
        /\ loop' = "select" /\ ~boosted'
    BY <1>8 DEF Die
  <2>2. \A a \in Actors : job'[a].then = "keep"
    BY <2>1, NoJobIsAJob
  <2> QED BY <2>1, <2>2, LoopIsAnActor DEF Earned
<1>9. CASE LoopStep
  BY <1>0, <1>1, <1>2, <1>3, <1>4, <1>9, EarnedBandwidth, EarnedFlag, LoopIsAnActor
     DEF LoopStep
<1>10. CASE \E h \in Handlers : HandlerStep(h) \/ Asked(h)
  BY <1>0, <1>4, <1>5, <1>10, EarnedFlag, LoopIsAnActor DEF HandlerStep
<1> QED BY <1>6, <1>7, <1>8, <1>9, <1>10 DEF Next

-------------------------------------------------------------------------------
(* The invariant, and what follows.                                        *)

LEMMA InvInit == Init => Inv
<1> SUFFICES ASSUME Init PROVE Inv
  OBVIOUS
<1>1. TickTypeOK
  BY TypeInit
<1>2. \A a \in Actors : job[a] = NoJob
  BY DEF Init
<1>3. Resting /\ Written /\ DryRunAsAsked /\ ReloadSparesStations
  BY <1>2, NoJobIsAJob DEF Init, Resting, Written, DryRunAsAsked, ReloadSparesStations, At
<1>4. Earned
  BY <1>2, NoJobIsAJob, LoopIsAnActor DEF Init, Earned
<1>5. Dry
  BY <1>3 DEF Init, Dry, NoTick
<1> QED BY <1>1, <1>3, <1>4, <1>5 DEF Inv

LEMMA InvStep == Inv /\ [Next]_vars => Inv'
<1> SUFFICES ASSUME Inv, [Next]_vars PROVE Inv'
  OBVIOUS
<1>1. Kind
  BY Kinds DEF Inv
<1>2. TickTypeOK'
  BY TypeStep DEF Inv
<1>3. Resting' /\ Written' /\ ReloadSparesStations'
  BY <1>1, RestingStep, WrittenStep, SparesStep DEF Inv
<1>4. Earned' /\ Dry'
  BY EarnedStep, DryStep DEF Inv
<1> QED BY <1>2, <1>3, <1>4 DEF Inv

\* Only the loop and the handlers' answers touch the flag of a process that
\* keeps running.
LEMMA FlagSteps ==
  ASSUME TickTypeOK, [Next]_vars, up, up', boosted' # boosted
  PROVE  \/ LoopGoesOn
         \/ \E h \in Handlers : Answer(h)
<1>1. CASE LoopStep
  BY <1>1 DEF LoopStep, StartTick, SkipTick, NoAnomaly, Bandwidth, Pace, Accelerate, Heal,
              Rollback, Maintain, Runs
<1>2. CASE \E h \in Handlers : HandlerStep(h) \/ Asked(h)
  BY <1>2 DEF HandlerStep, Asked, Runs, BoostCommand, Request, Inject, requestVars
<1>3. CASE \/ \E file \in Files : ReloadConfig(file) \/ Start(file)
           \/ \E who \in Peers \cup {"empty"} : SomeoneElse(who)
           \/ LoseStaged \/ SleepOrWake \/ UNCHANGED vars
  BY <1>3 DEF ReloadConfig, Start, SomeoneElse, LoseStaged, SleepOrWake, vars
<1>4. ~Die
  BY DEF Die
<1> QED BY <1>1, <1>2, <1>3, <1>4 DEF Next

\* The flag is taken away after RestoreCycles low ticks in a row only.
THEOREM RevertEarned == Spec => RevertIsEarned
<1>1. ASSUME Inv, [Next]_vars, up, up', boosted, ~boosted'
      PROVE  quiet = RestoreCycles
  <2>1. TickTypeOK /\ Earned
    BY <1>1 DEF Inv
  <2>2. \A a \in Actors : job[a].then \in {"keep", "on", "off"}
    BY <2>1 DEF TickTypeOK, Jobs
  <2>3. CASE LoopGoesOn
    BY <1>1, <2>1, <2>2, <2>3, LoopIsAnActor DEF LoopGoesOn, Flag, Earned
  <2>4. ASSUME NEW h \in Handlers, Answer(h) PROVE quiet = RestoreCycles
    BY <1>1, <2>1, <2>2, <2>4, LoopIsAnActor DEF Answer, Flag, Earned
  <2>5. boosted' # boosted
    BY <1>1
  <2> QED BY <1>1, <2>1, <2>3, <2>4, <2>5, FlagSteps
<1>2. Inv /\ [Next]_vars => [up /\ up' /\ boosted /\ ~boosted' => quiet = RestoreCycles]_vars
  BY <1>1
<1> QED BY <1>2, InvInit, InvStep, PTL DEF Spec, RevertIsEarned

\* A flag that changes stands for the width that is configured.
THEOREM FlagFollows == Spec => FlagFollowsRadio
<1> DEFINE Stands ==
      up /\ up' /\ boosted' # boosted =>
        \E a \in Actors :
          /\ job[a].then = IF boosted' THEN "on" ELSE "off"
          /\ job[a].sure => committed = IF boosted' THEN Max160 ELSE Eco
<1>1. ASSUME Inv, [Next]_vars PROVE Stands
  <2> SUFFICES ASSUME up, up', boosted' # boosted
               PROVE  \E a \in Actors :
                        /\ job[a].then = IF boosted' THEN "on" ELSE "off"
                        /\ job[a].sure => committed = IF boosted' THEN Max160 ELSE Eco
    OBVIOUS
  <2>1. TickTypeOK /\ Written /\ job \in [Actors -> Jobs] /\ boosted \in BOOLEAN
    BY <1>1 DEF Inv, TickTypeOK
  <2>2. \E a \in Actors : Ended(a) /\ boosted' = Flag(a)
    BY <1>1, <2>1, FlagSteps, LoopIsAnActor DEF LoopGoesOn, Answer
  <2>3. PICK a \in Actors : boosted' = Flag(a)
    BY <2>2
  <2>4. At(a, "ok") /\ job[a].then # "keep" /\ boosted' = (job[a].then = "on")
    BY <2>3 DEF Flag
  <2>5. job[a].then = IF boosted' THEN "on" ELSE "off"
    BY <2>1, <2>4 DEF Jobs
  <2>6. job[a].sure => committed = WidthOf(job[a].action)
    BY <2>1, <2>4 DEF Written, At
  <2>7. WidthOf(job[a].action) = IF boosted' THEN Max160 ELSE Eco
    BY <2>1, <2>4, <2>5 DEF Written, WidthOf, ToEco
  <2> QED BY <2>5, <2>6, <2>7
<1>2. Inv /\ [Next]_vars => [Stands]_vars
  BY <1>1
<1> QED BY <1>2, InvInit, InvStep, PTL DEF Spec, FlagFollowsRadio

\* A dry run that was asked for runs no command, across reloads and restarts.
THEOREM DryRunKept == Spec => []DryRunAsAsked
<1>1. Inv => DryRunAsAsked
  BY DEF Inv, Dry
<1> QED BY <1>1, InvInit, InvStep, PTL DEF Spec

\* Wi-Fi is not reloaded under a station that the guard could see.
THEOREM StationsSpared == Spec => []ReloadSparesStations
<1>1. Inv => ReloadSparesStations
  BY DEF Inv
<1> QED BY <1>1, InvInit, InvStep, PTL DEF Spec

-------------------------------------------------------------------------------
(* What the operators of Intents, Measures and StoreQueries return.        *)

\* A time of day is a minute of the day, or none.
LEMMA ParsedIsAMinute ==
  ASSUME NEW text \in Texts
  PROVE  ParseTimeOfDay(text) \in Minutes \cup {Unparsable}
<1>1. CASE Len(text) = 2 /\ text[1] \in 0 .. 23 /\ text[2] \in 0 .. 59
  BY <1>1 DEF ParseTimeOfDay, Minutes, MinutesPerDay
<1>2. CASE ~(Len(text) = 2 /\ text[1] \in 0 .. 23 /\ text[2] \in 0 .. 59)
  BY <1>2 DEF ParseTimeOfDay
<1> QED BY <1>1, <1>2

\* intents.go:139: a window is the minutes less far after its start than its
\* end is, around the clock: windows over midnight are whole, and one that
\* ends when it starts is empty.
THEOREM WindowIsCyclic ==
  ASSUME NEW now \in Minutes, NEW start \in Minutes, NEW end \in Minutes
  PROVE  IsTimeInWindow(now, start, end)
           <=> (now - start) % MinutesPerDay < (end - start) % MinutesPerDay
<1>1. MinutesPerDay = 1440
  BY DEF MinutesPerDay
<1>3. now \in 0 .. 1439 /\ start \in 0 .. 1439 /\ end \in 0 .. 1439
  BY DEF Minutes, MinutesPerDay
<1>4. (now - start) % 1440 = IF now >= start THEN now - start ELSE now - start + 1440
  BY <1>3, SMT
<1>5. (end - start) % 1440 = IF end >= start THEN end - start ELSE end - start + 1440
  BY <1>3, SMT
<1> QED BY <1>1, <1>3, <1>4, <1>5 DEF IsTimeInWindow

\* Of overlapping intents one is active: no two are, whatever the windows.
LEMMA OneIntentIsActive ==
  ASSUME NEW intents \in Seq(IntentType), NEW now \in Minutes,
         NEW i \in DOMAIN intents, NEW j \in DOMAIN intents,
         IsActive(intents, i, now), IsActive(intents, j, now)
  PROVE  i = j
<1>1. i \in Nat /\ j \in Nat /\ i >= 1 /\ j >= 1
  OBVIOUS
<1>2. ~(i < j) /\ ~(j < i)
  BY <1>1 DEF IsActive
<1> QED BY <1>1, <1>2

\* intents.go:183: the first intent of the file that applies decides; what
\* it does not override stays as configured.
THEOREM FirstIntentWins ==
  ASSUME NEW thresholds \in [Fields -> Int], NEW intents \in Seq(IntentType),
         NEW now \in Minutes, NEW i \in DOMAIN intents, NEW f \in Fields,
         Applies(intents[i], now),
         \A j \in 1 .. i - 1 : ~Applies(intents[j], now)
  PROVE  ResolveEffectiveThresholds(thresholds, intents, now)[f]
           = IF intents[i].over[f] > 0 THEN intents[i].over[f]
                                        ELSE Base(thresholds)[f]
<1>1. IsActive(intents, i, now)
  BY DEF IsActive
<1> DEFINE k == CHOOSE j \in DOMAIN intents : IsActive(intents, j, now)
<1>2. k \in DOMAIN intents /\ IsActive(intents, k, now)
  BY <1>1
<1> HIDE DEF k
<1>3. k = i
  BY <1>1, <1>2, OneIntentIsActive
<1> QED BY <1>1, <1>3 DEF ResolveEffectiveThresholds, k

\* No configuration and no intent, however wrong, switches a threshold off
\* by making it zero or negative.
THEOREM ThresholdsArePositive ==
  ASSUME NEW thresholds \in [Fields -> Int], NEW file \in IntentFiles,
         NEW now \in Minutes, NEW f \in Fields
  PROVE  GetEffectiveThresholds(thresholds, file, now)[f] > 0
<1>1. Base(thresholds)[f] > 0
  BY DEF Base, Defaults, Fields
<1> QED BY <1>1 DEF GetEffectiveThresholds, ResolveEffectiveThresholds

-------------------------------------------------------------------------------
\* telemetry.go:693: a sample is part of the mean and the variance it is
\* compared with, so its score is never above two, however high it is.
THEOREM ScoreStaysBelowTwo ==
  ASSUME NEW T \in Int, T >= 200,
         NEW variance \in Nat, NEW rise \in Int
  PROVE  ~ScoreExceeds(T, variance, rise)
<1> SUFFICES ASSUME rise > 0
             PROVE  ~(40000 * (rise * rise) > (T * T) * (5 * variance + rise * rise))
  BY SMT DEF ScoreExceeds
<1> DEFINE R == rise * rise
           S == 5 * variance + R
           Q == T * T
<1>1. R \in Nat
  OBVIOUS
<1>2. S \in Nat /\ S >= R
  BY <1>1
<1>3. Q \in Nat /\ Q >= 40000
  BY SMT
<1> HIDE DEF R, S, Q
<1>4. Q * S >= 40000 * S
  BY <1>2, <1>3, SMT
<1>5. Q * S \in Int
  BY <1>2, <1>3, SMT
<1>6. ~(40000 * R > Q * S)
  BY <1>1, <1>2, <1>4, <1>5, SMT
<1> QED BY <1>6, SMT DEF R, S, Q

\* main.go:927: unless the threshold of the score is configured, or
\* overridden by an intent, below 2.0, no latency is a BUFFERBLOAT_SPIKE.
\* The default is 2.5.
THEOREM NoSpikeByDefault ==
  ASSUME NEW effective \in [Fields -> Int], effective["zscore"] >= 200,
         NEW m \in [wan : STRING, ram : Int, latency : Int, variance : Nat,
                    rise : Int, signal : Int],
         NEW log \in Seq(Lines), NEW used \in Nat
  PROVE  Anomaly(m, effective, log, used) # "BUFFERBLOAT_SPIKE"
<1>1. effective.zscore \in Int /\ effective.zscore >= 200
  BY DEF Fields
<1>2. ~ScoreExceeds(effective.zscore, m.variance, m.rise)
  BY <1>1, ScoreStaysBelowTwo
<1>3. \A line, kept : ParseLine(line, kept) # "BUFFERBLOAT_SPIKE"
  BY DEF ParseLine
<1>4. LogAnomaly(log, used) # "BUFFERBLOAT_SPIKE"
  BY <1>3 DEF LogAnomaly
<1> QED BY <1>2, <1>4 DEF Anomaly

-------------------------------------------------------------------------------
\* telemetry.go:253: the floor of half the peak is never what limits the
\* shaper: the rate is 80 % (68 % in a spike) of the larger of 200 Mbps and
\* the peak, up to 900 Mbps.
THEOREM ShaperFloorNeverActs ==
  ASSUME NEW peak \in Nat, NEW spike \in BOOLEAN
  PROVE  LET wanted == IF spike THEN 680 * Larger(200, peak)
                                ELSE 800 * Larger(200, peak)
         IN ShaperRate(peak, spike) = IF wanted > 900000 THEN 900000 ELSE wanted
<1>1. CASE spike
  BY <1>1, SMT DEF ShaperRate, Larger
<1>2. CASE ~spike
  BY <1>2, SMT DEF ShaperRate, Larger
<1> QED BY <1>1, <1>2, SMT

\* telemetry.go:236: the shaper leaves room for the traffic that is flowing:
\* at least 80 % of it (68 % in a spike) or 900 Mbps, also after a spike has
\* made it forget the peak; never less than 160 Mbps (136 in a spike); and
\* the peak itself is given up in a spike only, for traffic of more than
\* 50 Mbps that is below three quarters of it.
THEOREM ShaperCoversTraffic ==
  ASSUME NEW peak \in Nat, NEW last \in Nat, NEW spike \in BOOLEAN
  PROVE  LET now  == Recalibrated(PeakAfter(peak, last), last, spike)
             rate == ShaperRate(now, spike)
         IN /\ rate >= (IF spike THEN 680 ELSE 800) * last \/ rate = 900000
            /\ (IF spike THEN 136000 ELSE 160000) <= rate /\ rate <= 900000
            /\ now >= peak \/ (spike /\ now > 50 /\ 4 * now < 3 * peak)
<1> DEFINE now  == Recalibrated(PeakAfter(peak, last), last, spike)
           rate == ShaperRate(now, spike)
<1>1. now \in Nat /\ now >= last
  BY DEF Recalibrated, PeakAfter, Larger
<1>2. now >= peak \/ (spike /\ now > 50 /\ 4 * now < 3 * peak)
  <2>1. CASE peak <= last
    BY <2>1, SMT DEF Recalibrated, PeakAfter, Larger
  <2>2. CASE last < peak
    BY <2>2, SMT DEF Recalibrated, PeakAfter, Larger
  <2> QED BY <2>1, <2>2, SMT
<1> HIDE DEF now
<1>3. CASE spike
  <2>1. /\ rate >= 680 * last \/ rate = 900000
        /\ 136000 <= rate /\ rate <= 900000
    BY <1>1, <1>3, SMT DEF ShaperRate, Larger
  <2> HIDE DEF rate
  <2>2. /\ rate >= (IF spike THEN 680 ELSE 800) * last \/ rate = 900000
        /\ (IF spike THEN 136000 ELSE 160000) <= rate /\ rate <= 900000
    BY <1>3, <2>1, SMT
  <2> QED BY <1>2, <2>2, SMT DEF now, rate
<1>4. CASE ~spike
  <2>1. /\ rate >= 800 * last \/ rate = 900000
        /\ 160000 <= rate /\ rate <= 900000
    BY <1>1, <1>4, SMT DEF ShaperRate, Larger
  <2> HIDE DEF rate
  <2>2. /\ rate >= (IF spike THEN 680 ELSE 800) * last \/ rate = 900000
        /\ (IF spike THEN 136000 ELSE 160000) <= rate /\ rate <= 900000
    BY <1>4, <2>1, SMT
  <2> QED BY <1>2, <2>2, SMT DEF now, rate
<1> QED BY <1>3, <1>4, SMT

\* telemetry.go:163: when an interface that had sent more than it received
\* goes away, what is left of the sent bytes passes for a word less a little.
THEOREM UploadWraps ==
  ASSUME NEW last \in [rx : Nat, tx : Nat], NEW rx \in Nat, NEW tx \in Nat,
         last.rx > 0, rx >= last.rx, tx < last.tx, last.tx < Word
  PROVE  Transferred(last, rx, tx).up = Word - (last.tx - tx)
<1> DEFINE d == last.tx - tx
<1>1. d \in Nat /\ d > 0 /\ d < Word /\ Word \in Nat
  BY WordAssumption
<1>2. tx - last.tx = -d
  OBVIOUS
<1> HIDE DEF d
<1>3. (-d) % Word = Word - d
  BY <1>1
<1> QED BY <1>2, <1>3 DEF Transferred, d

-------------------------------------------------------------------------------
\* A set of numbers that is not empty has a least one.
LEMMA LeastNatural ==
  ASSUME NEW S \in SUBSET Nat, NEW n \in S
  PROVE  \E k \in S : \A j \in S : k <= j
<1>1. PICK k \in S : \A j \in S : ~ (<< j, k >> \in OpToRel(<, Nat))
  <2>1. S # {}
    OBVIOUS
  <2> QED BY <2>1, WFMin, NatLessThanWellFounded
<1>2. \A j \in S : ~ (j < k)
  BY <1>1 DEF OpToRel
<1> QED BY <1>2

\* What a match found says of its line.
LEMMA FoundMatches ==
  ASSUME NEW line, NEW kept, ParseLine(line, kept) # "none"
  PROVE  \E p \in Patterns : Matches(line, p, kept)
BY DEF ParseLine, Patterns

\* A line of the sample that passes the limit and matches makes the sample one
\* with an anomaly: its own, or that of an earlier line.
LEMMA MatchIsFound ==
  ASSUME NEW log \in Seq(Lines), NEW used \in Nat, NEW n \in Passed(log, used),
         NEW p \in Patterns, Matches(log[n], p, Kept(log))
  PROVE  LogAnomaly(log, used) # "none"
<1> DEFINE Hit(i) == ParseLine(log[i], Kept(log)) # "none"
           hits   == {i \in Passed(log, used) : Hit(i)}
<1>1. Hit(n)
  BY DEF ParseLine, Patterns
<1>2. Passed(log, used) \subseteq DOMAIN log /\ DOMAIN log \subseteq Nat
  BY DEF Passed, Sampled, First, LogLines
<1>3. n \in hits /\ hits \subseteq Nat
  BY <1>1, <1>2
<1> HIDE DEF Hit
<1>4. PICK k \in hits : \A j \in hits : k <= j
  BY <1>3, LeastNatural
<1>5. \A j \in Passed(log, used) : j < k => ~Hit(j)
  <2> SUFFICES ASSUME NEW j \in Passed(log, used), j < k, Hit(j) PROVE FALSE
    OBVIOUS
  <2>1. j \in hits
    OBVIOUS
  <2>2. k <= j /\ k \in Nat /\ j \in Nat
    BY <1>3, <1>4, <2>1
  <2> QED BY <2>2
<1>6. k \in DOMAIN log /\ Finds(log, used, k)
  BY <1>2, <1>4, <1>5 DEF Finds, Hit
<1> DEFINE c == CHOOSE i \in DOMAIN log : Finds(log, used, i)
<1>7. Finds(log, used, c)
  BY <1>6
<1>8. LogAnomaly(log, used) = ParseLine(log[c], Kept(log))
  BY <1>6 DEF LogAnomaly
<1> HIDE DEF c
<1> QED BY <1>7, <1>8 DEF Finds

\* parser.go:83: the warning about a line matches what the line matches, so a
\* later sample has an anomaly again, of the warning or of a line before it,
\* as long as three conditions hold: fewer than fifteen lines have been logged
\* since, the sample up to the warning is within the 4096 bytes that are kept,
\* and the limit of lines lets the sample pass.
THEOREM EchoIsDetected ==
  ASSUME NEW log, IsLog(log), NEW used \in Nat, NEW i \in DOMAIN log,
         Finds(log, used, i),
         NEW next, IsLog(next), NEW n \in Sampled(next),
         IsEcho(next[n], log[i], Kept(log)),
         next[n].to <= Kept(next),
         NEW spent \in Nat, spent + LogLines <= MaxLinesPerSec
  PROVE  LogAnomaly(next, spent) # "none"
<1> DEFINE first == First(next)
           size  == Len(next)
<1>1. next \in Seq(Lines) /\ size \in Nat
  BY DEF IsLog
<1>2. first = IF size > LogLines THEN size - LogLines + 1 ELSE 1
  BY DEF First
<1>3. n \in first .. size /\ n \in DOMAIN next /\ first \in DOMAIN next
  BY <1>1, <1>2 DEF Sampled, LogLines
<1>4. next[n] \in Lines /\ next[first] \in Lines
  BY <1>1, <1>3
<1>5. PICK p \in Patterns : Matches(log[i], p, Kept(log))
  BY FoundMatches DEF Finds
<1> DEFINE at   == next[n].at[p]
           to   == next[n].to
           kept == Kept(next)
<1>6. at \in Nat /\ to \in Nat /\ kept \in Nat
  BY <1>4, SMT DEF Lines, Kept, SampleBytes
<1>7. at # 0
  BY <1>5 DEF IsEcho
<1>8. at <= to /\ to <= kept
  BY <1>3, <1>7 DEF IsLog
<1>9. at <= kept
  <2> HIDE DEF at, to, kept
  <2> QED BY <1>6, <1>8
<1>10. Matches(next[n], p, Kept(next))
  BY <1>7, <1>9 DEF Matches
<1>11. n \in Passed(next, spent)
  <2> HIDE DEF first, size
  <2>1. spent + (n - first) < MaxLinesPerSec
    BY <1>1, <1>2, <1>3 DEF LogLines, MaxLinesPerSec
  <2> QED BY <1>3, <2>1 DEF Passed, Sampled, first, size
<1> QED BY <1>1, <1>10, <1>11, MatchIsFound

\* main.go:858: SanitizeLog is meant for a line and is given the whole sample;
\* whatever line counts starts within its first 4096 bytes, so an anomaly in
\* the newest lines of a verbose log is not found until they have become old.
THEOREM CutHidesNewest ==
  ASSUME NEW log, IsLog(log), NEW used \in Nat, NEW i \in DOMAIN log,
         Finds(log, used, i)
  PROVE  log[i].from < log[First(log)].from + SampleBytes
<1>1. PICK p \in Patterns : Matches(log[i], p, Kept(log))
  BY FoundMatches DEF Finds
<1>2. log \in Seq(Lines) /\ log[i] \in Lines
  BY DEF IsLog
<1>3. i \in First(log) .. Len(log)
  BY DEF Finds, Passed, Sampled
<1>4. First(log) \in DOMAIN log
  BY <1>2, <1>3 DEF First, LogLines
<1>5. log[First(log)] \in Lines
  BY <1>2, <1>4
<1> DEFINE from == log[i].from
           at   == log[i].at[p]
           kept == Kept(log)
<1>6. from \in Nat /\ at \in Nat /\ kept \in Nat
  <2>1. log[First(log)].from \in Nat
    BY <1>5 DEF Lines
  <2>2. kept \in Nat
    BY <2>1 DEF Kept, SampleBytes
  <2>3. log[i].from \in Nat /\ log[i].at \in [Patterns -> Nat]
    BY <1>2 DEF Lines
  <2> QED BY <1>1, <2>2, <2>3
<1>7. at # 0 /\ at <= kept
  BY <1>1 DEF Matches
<1>8. from < at
  BY <1>7 DEF IsLog
<1> HIDE DEF from, at
<1> QED BY <1>6, <1>7, <1>8 DEF Kept, from

-------------------------------------------------------------------------------
\* What 999 ms of latency alone contribute to a distance.
LEMMA FarByLatency ==
  ASSUME NEW s \in Signatures, NEW t \in Signatures,
         s.size["latency"] = 0, t.size["latency"] = 999
  PROVE  Distance(s, t) >= 215568216
<1> DEFINE ram  == Squared(s, t, "ram")
           cpu  == Squared(s, t, "cpu")
           temp == Squared(s, t, "temp")
           wan  == IF s.wan # t.wan THEN 900000 ELSE 0
           wifi == IF s.wifi # t.wifi THEN 810000 ELSE 0
<1>1. \A x \in Int : x * x \in Nat
  OBVIOUS
<1>2. \A f \in Sizes : s.size[f] - t.size[f] \in Int
  BY DEF Signatures
<1>3. ram \in Nat /\ cpu \in Nat /\ temp \in Nat
  BY <1>1, <1>2 DEF Squared, Sizes
<1>4. Squared(s, t, "latency") = 999 * 999
  BY SMT DEF Squared
<1>5. wan \in Nat /\ wifi \in Nat
  BY SMT
<1>6. Distance(s, t) = 6750 * ram + 216 * (999 * 999) + 1600 * cpu + 2700 * temp
                       + wan + wifi
  BY <1>4, SMT DEF Distance
<1> HIDE DEF ram, cpu, temp, wan, wifi
<1> QED BY <1>3, <1>5, <1>6, SMT

LEMMA DistanceIsAnInteger ==
  ASSUME NEW s \in Signatures, NEW t \in Signatures
  PROVE  Distance(s, t) \in Int
<1>1. \A f \in Sizes : Squared(s, t, f) \in Int
  BY DEF Signatures, Squared
<1> QED BY <1>1, SMT DEF Distance, Sizes

LEMMA WanDropSeed ==
  Seeds.WAN_DROP \in Signatures /\ Seeds.WAN_DROP.size["latency"] = 999
<1> DEFINE seed == Signature(45, 999, 15, 55, TRUE, FALSE)
<1>1. Seeds.WAN_DROP = seed
  BY SMT DEF Seeds
<1>2. seed \in Signatures /\ seed.size["latency"] = 999
  BY SMT DEF Signature, Signatures, Sizes
<1> HIDE DEF seed
<1> QED BY <1>1, <1>2, SMT

\* store.go:290: an offline WAN is sampled with a latency of zero, and the
\* signature that WAN_DROP starts with has one of 999 ms: under no distance
\* threshold that the configuration allows is such a sample similar to it.
THEOREM OfflineIsNoWanDrop ==
  ASSUME NEW s \in Signatures, NEW milliseconds \in Nat, NEW answered \in BOOLEAN,
         s.size["latency"] = Latency(FALSE, answered, milliseconds),
         NEW wanted \in Int
  PROVE  ~Similar(s, Seeds.WAN_DROP, Threshold(wanted))
<1> DEFINE th == Threshold(wanted)
<1>1. s.size["latency"] = 0
  BY DEF Latency
<1>2. Distance(s, Seeds.WAN_DROP) >= 215568216
  BY <1>1, FarByLatency, WanDropSeed, SMT
<1>3. th \in 100 .. 500
  BY DEF Threshold, DefaultThreshold
<1> HIDE DEF th
<1>4. th * th <= 500 * 500
  BY <1>3, SMT
<1>5. Distance(s, Seeds.WAN_DROP) \in Int
  BY WanDropSeed, DistanceIsAnInteger
<1>6. th * th \in Nat
  BY <1>3, SMT
<1>7. ~(Distance(s, Seeds.WAN_DROP) <= 45 * (th * th))
  BY <1>2, <1>4, <1>5, <1>6, SMT
<1> QED BY <1>7 DEF Similar, th

\* store.go:839: the running mean lies between the mean and the sample, so
\* no sequence of samples takes a signature out of their range, and the
\* number of samples, capped at 500, never overflows.
THEOREM MeanStaysBetween ==
  ASSUME NEW old \in Nat, NEW new \in Nat, NEW count \in 0 .. 500,
         NEW low \in Nat, NEW high \in Nat,
         low <= old, low <= new, old <= high, new <= high
  PROVE  /\ low <= Mean(old, count, new) /\ Mean(old, count, new) <= high
         /\ CountAfter(count) \in 0 .. 500
<1> DEFINE w   == Weight(count)
           sum == old * w + new
<1>1. w \in Nat
  BY DEF Weight
<1> HIDE DEF w
<1>2. low * w <= old * w /\ old * w <= high * w
  BY <1>1
<1>3. low * (w + 1) = low * w + low /\ high * (w + 1) = high * w + high
  BY <1>1
<1>4. low * w \in Nat /\ high * w \in Nat /\ old * w \in Nat
  BY <1>1
<1>5. low * (w + 1) <= sum /\ sum <= high * (w + 1) /\ sum \in Nat
  BY <1>1, <1>2, <1>3, <1>4
<1> HIDE DEF sum
<1> DEFINE n == w + 1
           m == sum \div n
<1>6. n \in Nat /\ n > 0 /\ low * n <= sum /\ sum <= high * n /\ sum \in Nat
  BY <1>1, <1>5
<1> HIDE DEF n
<1>7. m \in Int /\ n * m <= sum /\ sum < n * m + n
  BY <1>6
<1>8. low <= m
  <2> SUFFICES ASSUME m < low PROVE FALSE
    BY <1>7
  <2>1. m + 1 <= low
    BY <1>7
  <2>2. n * (m + 1) <= n * low
    BY <1>6, <1>7, <2>1
  <2>3. n * (m + 1) = n * m + n /\ n * low = low * n
    BY <1>6, <1>7
  <2> QED BY <1>6, <1>7, <2>2, <2>3
<1>9. m <= high
  <2> SUFFICES ASSUME m > high PROVE FALSE
    BY <1>7
  <2>1. high + 1 <= m
    BY <1>7
  <2>2. n * (high + 1) <= n * m
    BY <1>6, <1>7, <2>1
  <2>3. n * (high + 1) = high * n + n
    BY <1>6
  <2>4. high * n \in Nat
    BY <1>6
  <2> QED BY <1>6, <1>7, <2>2, <2>3, <2>4
<1>10. Mean(old, count, new) = m
  BY DEF Mean, m, n, sum, w
<1>11. CountAfter(count) \in 0 .. 500
  BY DEF CountAfter
<1> QED BY <1>8, <1>9, <1>10, <1>11

\* telemetry_maintenance.go:44: the history is pruned before it is looked
\* at, so with a retention of less than fourteen days the readiness alert is
\* due only on a day whose prune has failed, whatever was recorded.
THEOREM ReadinessNeedsRetention ==
  ASSUME NEW now \in Nat, NEW history \in SUBSET (0 .. now), NEW wanted \in Int,
         NEW pruned \in BOOLEAN, Maintained(history, now, wanted, pruned)
  PROVE  RetentionDays(wanted) >= 14 \/ ~pruned
<1> SUFFICES ASSUME pruned PROVE RetentionDays(wanted) >= 14
  OBVIOUS
<1> DEFINE days == RetentionDays(wanted)
           left == PruneTelemetryHistory(history, now, wanted)
<1>1. PICK oldest \in left, newest \in left : newest - oldest >= 14 * Day
  BY DEF Maintained, ReadinessDue
<1>2. days \in Int /\ Day = 86400
  BY DEF RetentionDays, Day
<1>3. /\ oldest \in 0 .. now /\ newest \in 0 .. now
      /\ oldest >= now - days * Day
  BY DEF PruneTelemetryHistory
<1> HIDE DEF days, left
<1>4. days * 86400 >= 14 * 86400
  BY <1>1, <1>2, <1>3
<1>5. days >= 14
  BY <1>2, <1>4
<1> QED BY <1>5 DEF days
===============================================================================
