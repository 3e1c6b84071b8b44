----------------------------- MODULE SkillLearning -----------------------------
(***************************************************************************)
(* What the agent learns from its actions (cmd/main.go, skillstore): the   *)
(* rows of `skills' with their smoothed confidence, the Q-table, and the   *)
(* goroutines that judge an action three seconds after it ran.             *)
(*                                                                         *)
(* Processes: the main loop, its verification goroutines (also two of one  *)
(* anomaly: the cooldown starts before the AI is asked, which may take     *)
(* longer), those started by POST /api/chaos/inject, and the shutdown.     *)
(* Every query and every statement holds the mutex of the store; between   *)
(* two of them anything may happen.  Cooldowns are left out.  A statement  *)
(* that writes may fail; a query of an open store is taken to be answered. *)
(*                                                                         *)
(* Numbers are fixed-point, in thousandths rounded down.  Signatures of    *)
(* states are left out: which known state is the nearest is any choice.    *)
(* What the files keep over a loss of power is the subject of HybridStore. *)
(***************************************************************************)
EXTENDS Integers, FiniteSets, SequencesExt

CONSTANTS
  Anomalies,     (* anomaly types                                          *)
  Checked,       (* those that the loop's verification can find solved     *)
  Actions,       (* healing actions                                        *)
  WanDrop,       (* the one that an offline WAN raises                     *)
  RestartWan,    (* the action of last resort when the WAN is offline      *)
  Risk,          (* GetActionRiskThreshold                                 *)
  DefaultAction, (* action for an anomaly of which nothing is known        *)
  Seed,          (* q_table after OpenAndInit on an empty database         *)
  AIAnswers,     (* answers of the AI; its confidence is any number        *)
  Injected,      (* anomalies and actions that chaos calls inject          *)
  Verifications, (* verifications of the loop that may overlap (a bound)   *)
  ChaosCalls,    (* verifications of chaos injections that may overlap     *)
  MaxStarts      (* bound: actions executed in one behaviour               *)

Unit == 1000
NoQ  == -Unit    \* no row in q_table
HighRisk == 850  \* risk threshold from which a checkpoint is taken

ASSUME LearningAssumption ==
  /\ Checked \subseteq Anomalies
  /\ WanDrop \in Anomalies
  /\ RestartWan \in Actions
  /\ Risk \in [Actions -> 0 .. Unit]
  /\ DefaultAction \in [Anomalies -> Actions]
  /\ Seed \in [Anomalies \X Actions -> {NoQ} \cup 0 .. Unit]
  /\ AIAnswers \subseteq [action : Actions, conf : Int]
  /\ Injected \subseteq Anomalies \X Actions
  /\ IsFiniteSet(Verifications) /\ IsFiniteSet(ChaosCalls)
  /\ Verifications \cap ChaosCalls = {}
  /\ MaxStarts \in Nat

VARIABLES
  skills,   (* table skills, by id                                         *)
  q,        (* table q_table                                               *)
  loop,     (* main loop: program counter, anomaly and recommended action  *)
  job,      (* verifications: the loop's and those of chaos calls          *)
  closed,   (* SkillStore.closed                                           *)
  started,  (* history: number of actions executed                         *)
  verdicts, (* history: verdicts written to each row of skills             *)
  rewards,  (* history: rewards learned by each entry of the Q-table       *)
  unsaved,  (* history: verdicts of each pair that did not reach skills    *)
  unlearned,(* history: verdicts of each pair that passed skills and did   *)
            (* not reach the Q-table                                       *)
  beyond    (* history: rows whose copy had a confidence above 1           *)

tables  == << skills, q >>
history == << started, verdicts, rewards, unsaved, unlearned, beyond >>
vars    == << tables, loop, job, closed, history >>

-------------------------------------------------------------------------------
(* Data.                                                                   *)

Pairs == Anomalies \X Actions

\* "anomaly:action" for the loop, "skill_anomaly_action" for an injection.
Ids == {"loop", "chaos"} \X Anomalies \X Actions
PairOf(id) == << id[2], id[3] >>

NoRow == [conf |-> 0, succ |-> 0, fail |-> 0]
Rows  == [conf : Nat, succ : Nat, fail : Nat]
Stored == {id \in Ids : skills[id] # NoRow}

JobIds == Verifications \cup ChaosCalls

\* A verification holds a copy of the skill: its id and confidence; the counts
\* are not copied.  `inline': the command failed, and the loop itself records
\* that.
NoJob == [pc |-> "idle", id |-> CHOOSE id \in Ids : TRUE, conf |-> 0,
          ok |-> FALSE, inline |-> FALSE]
Jobs  == [pc : {"idle", "wait", "judged", "saved"}, id : Ids,
          conf : Nat, ok : BOOLEAN, inline : BOOLEAN]

Waiting(id, conf) ==
  [pc |-> "wait", id |-> id, conf |-> conf, ok |-> TRUE, inline |-> FALSE]
Failed(id, conf) ==
  [pc |-> "judged", id |-> id, conf |-> conf, ok |-> FALSE, inline |-> TRUE]

IdleLoop == [pc |-> "select", anomaly |-> CHOOSE a \in Anomalies : TRUE,
             action |-> RestartWan]

-------------------------------------------------------------------------------
(* The arithmetic of the store.                                            *)

\* Exponential smoothing; the loop uses EMAAlpha = 0.3, an injection 0.2.
Alpha(k) == IF k \in ChaosCalls THEN 2 ELSE 3

\* Seeded fault: the target is added, not the distance to it.
SmoothedOver(conf, ok, alpha) ==
  IF ok THEN conf + (alpha * Unit) \div 10 ELSE conf - (alpha * conf) \div 10

\* Seeded fault: a failure is counted and does not lower the confidence.
SmoothedUp(conf, ok, alpha) ==
  IF ok THEN conf + (alpha * (Unit - conf)) \div 10 ELSE conf

Smoothed(conf, ok, alpha) ==
  IF ok THEN conf + (alpha * (Unit - conf)) \div 10
        ELSE conf - (alpha * conf) \div 10

Reward(ok) == IF ok THEN Unit ELSE -500

\* Seeded fault: the reward replaces the entry (INSERT OR REPLACE).
LearnedAnew(old, reward) == reward

\* The first reward of a pair is its value; later ones move it by a fifth.
Learned(old, reward) ==
  IF old = NoQ THEN reward
  ELSE LET new == old + (reward - old) \div 5
           low == IF new > Unit THEN Unit ELSE new
       IN  IF low < -800 THEN -800 ELSE low

-------------------------------------------------------------------------------
(* Queries.                                                                *)

Known(a)  == {act \in Actions : q[a, act] # NoQ}
BestOf(a) == {act \in Known(a) : \A other \in Known(a) : q[a, other] <= q[a, act]}

\* The best known action, unless its value is negative.
Accepted(a) == {act \in BestOf(a) : q[a, act] >= 0}

\* RecommendBestActionWithInterpolation: the entries of this anomaly, else of
\* a similar one, else the default action.
Recommended(a) ==
  IF closed THEN {DefaultAction[a]}
  ELSE IF Known(a) # {}
  THEN IF Accepted(a) # {} THEN Accepted(a) ELSE {DefaultAction[a]}
  ELSE {DefaultAction[a]} \cup UNION {Accepted(n) : n \in Anomalies \ {a}}

\* GetSkill: some row with this anomaly and action.
Candidates(a, act) ==
  IF closed THEN {} ELSE {id \in Stored : PairOf(id) = << a, act >>}

\* The order of GetBestSkillForAnomaly.
Better(r, s) == r.conf > s.conf \/ (r.conf = s.conf /\ r.succ > s.succ)

TopRows(a) ==
  IF closed THEN {}
  ELSE {id \in Stored : /\ id[2] = a
                        /\ \A o \in Stored : o[2] = a =>
                              ~Better(skills[o], skills[id])}

\* The confidence of a row weighted by its Q-value, zero when it is rejected.
Weighted(id) ==
  LET value == q[PairOf(id)] IN
  IF value = NoQ THEN skills[id].conf
  ELSE IF value < 0 THEN 0
  ELSE (skills[id].conf * (IF value < 100 THEN 100 ELSE value)) \div Unit

\* For WanDrop, which an offline WAN always is, the cloud is not called: a
\* learned skill answers, or the restart of the WAN.
OfflineAnswers(a) ==
  LET good == {id \in TopRows(a) : Weighted(id) >= 500} IN
  {[action |-> id[3], conf |-> Weighted(id)] : id \in good}
  \cup (IF TopRows(a) = {} \/ good # TopRows(a)
        THEN {[action |-> RestartWan, conf |-> 950]} ELSE {})

Answers(a) == IF a = WanDrop THEN OfflineAnswers(a)
              ELSE AIAnswers

-------------------------------------------------------------------------------
(* The main loop.                                                          *)

Busy == \E v \in Verifications : job[v].inline

\* An anomaly, whether or not the last action against it has been judged: the
\* Q-table recommends an action.
Recommend(a) ==
  /\ loop.pc = "select" /\ ~Busy
  /\ \E act \in Recommended(a) :
        loop' = [pc |-> "lookup", anomaly |-> a, action |-> act]
  /\ UNCHANGED << tables, job, closed, history >>

\* ExecuteAction and verifyAndRecordSkillAsync.
ExecuteAndVerify(id, conf) ==
  /\ started < MaxStarts
  /\ \E v \in Verifications :
        /\ job[v].pc = "idle"
        /\ job' \in {[job EXCEPT ![v] = Waiting(id, conf)],
                     [job EXCEPT ![v] = Failed(id, conf)]}
  /\ started' = started + 1
  /\ beyond' = IF conf > Unit THEN beyond \cup {id} ELSE beyond
  /\ loop' = IdleLoop
  /\ UNCHANGED << tables, closed, verdicts, rewards, unsaved, unlearned >>

\* GetSkill: a confident local skill runs at once ...
CacheHit ==
  /\ loop.pc = "lookup" /\ ~Busy
  /\ \E id \in Candidates(loop.anomaly, loop.action) :
        /\ skills[id].conf >= Risk[loop.action]
        /\ ExecuteAndVerify(id, skills[id].conf)

\* ... otherwise the cloud or the offline store is asked.
CacheMiss ==
  /\ loop.pc = "lookup" /\ ~Busy
  /\ LET found == Candidates(loop.anomaly, loop.action) IN
     \/ found = {}
     \/ \E id \in found : skills[id].conf < Risk[loop.action]
  /\ loop' = [loop EXCEPT !.pc = "ask"]
  /\ UNCHANGED << tables, job, closed, history >>

\* The answer runs when its confidence reaches the threshold; its skill is a
\* new one with the confidence of the answer, whatever the row says.
Answered ==
  /\ loop.pc = "ask"
  /\ \E r \in Answers(loop.anomaly) :
        /\ r.conf >= Risk[r.action]
        /\ ExecuteAndVerify(<< "loop", loop.anomaly, r.action >>, r.conf)

\* An answer below the threshold waits for an operator: nothing is learned.
Gated ==
  /\ loop.pc = "ask"
  /\ \E r \in Answers(loop.anomaly) :
        r.conf < Risk[r.action]
  /\ loop' = IdleLoop
  /\ UNCHANGED << tables, job, closed, history >>

\* The AI call failed: the recommended action runs.
Fallback ==
  /\ loop.pc = "ask" /\ loop.anomaly # WanDrop
  /\ ExecuteAndVerify(<< "loop", loop.anomaly, loop.action >>, 900)

-------------------------------------------------------------------------------
(* Verification.                                                           *)

\* POST /api/chaos/inject: the action has run, its goroutine sleeps.  After a
\* failed command the verdict is negative.
InjectChaos(k, p) ==
  /\ job[k].pc = "idle"
  /\ started < MaxStarts
  /\ started' = started + 1
  /\ \E done \in BOOLEAN :
        job' = [job EXCEPT ![k] =
                  [Waiting(<< "chaos", p[1], p[2] >>, 600) EXCEPT !.ok = done]]
  /\ UNCHANGED << tables, loop, closed, verdicts, rewards, unsaved, unlearned,
                  beyond >>

\* Three seconds later the telemetry is read.
Judge(k) ==
  /\ job[k].pc = "wait"
  /\ \E ok \in BOOLEAN :
        /\ ok => job[k].ok
        /\ ok /\ k \in Verifications => job[k].id[2] \in Checked
        /\ job' = [job EXCEPT ![k].pc = "judged", ![k].ok = ok]
  /\ UNCHANGED << tables, loop, closed, history >>

\* SaveOrUpdateSkill: the row becomes the copy, smoothed and counted; or the
\* store is closed, or the statement fails.  Its error is ignored.
SaveOrUpdateSkill(k) ==
  /\ job[k].pc = "judged"
  /\ LET id == job[k].id  ok == job[k].ok IN
     \/ /\ ~closed
        /\ skills' = [skills EXCEPT ![id] =
               [conf |-> Smoothed(job[k].conf, ok, Alpha(k)),
                succ |-> IF ok THEN 1 ELSE 0,
                fail |-> IF ok THEN 0 ELSE 1]]
        /\ verdicts' = [verdicts EXCEPT ![id] = Append(@, ok)]
        /\ UNCHANGED unsaved
     \/ /\ unsaved' = [unsaved EXCEPT ![PairOf(id)] = @ + 1]
        /\ UNCHANGED << skills, verdicts >>
  /\ job' = [job EXCEPT ![k].pc = "saved"]
  /\ UNCHANGED << q, loop, closed, started, rewards, unlearned, beyond >>

\* Seeded fault: a failed command is recorded in skills only.
UpdateQValueSolved(k) ==
  /\ job[k].pc = "saved"
  /\ LET p == PairOf(job[k].id)  reward == Reward(job[k].ok) IN
     \/ /\ ~closed
        /\ IF job[k].inline THEN UNCHANGED << q, rewards >>
           ELSE /\ q' = [q EXCEPT ![p] = Learned(@, reward)]
                /\ rewards' = [rewards EXCEPT ![p] = Append(@, reward)]
        /\ UNCHANGED unlearned
     \/ /\ unlearned' = [unlearned EXCEPT ![p] = @ + 1]
        /\ UNCHANGED << q, rewards >>
  /\ job' = [job EXCEPT ![k] = NoJob]
  /\ UNCHANGED << skills, loop, closed, started, verdicts, unsaved, beyond >>

\* UpdateQValue, which ends the verification; its error is ignored as well.
UpdateQValue(k) ==
  /\ job[k].pc = "saved"
  /\ LET p == PairOf(job[k].id)  reward == Reward(job[k].ok) IN
     \/ /\ ~closed
        /\ q' = [q EXCEPT ![p] = Learned(@, reward)]
        /\ rewards' = [rewards EXCEPT ![p] = Append(@, reward)]
        /\ UNCHANGED unlearned
     \/ /\ unlearned' = [unlearned EXCEPT ![p] = @ + 1]
        /\ UNCHANGED << q, rewards >>
  /\ job' = [job EXCEPT ![k] = NoJob]
  /\ UNCHANGED << skills, loop, closed, started, verdicts, unsaved, beyond >>

-------------------------------------------------------------------------------
(* Shutdown and restart.                                                   *)

\* The signal handler or the restart closes the store before it cancels the
\* context of the goroutines.
Close ==
  /\ ~closed
  /\ closed' = TRUE
  /\ UNCHANGED << tables, loop, job, history >>

HalfRecorded(p) == {k \in JobIds : job[k].pc = "saved" /\ PairOf(job[k].id) = p}

\* The process ends, closed or not, and procd starts it again: the database in
\* /tmp is opened as it is, and the seeds do not replace entries.
ProcessRestarts ==
  /\ loop' = IdleLoop
  /\ job' = [k \in JobIds |-> NoJob]
  /\ closed' = FALSE
  /\ unlearned' = [p \in Pairs |-> unlearned[p] + Cardinality(HalfRecorded(p))]
  /\ UNCHANGED << tables, started, verdicts, rewards, unsaved, beyond >>

-------------------------------------------------------------------------------

Init ==
  /\ skills = [id \in Ids |-> NoRow]
  /\ q = Seed
  /\ loop = IdleLoop
  /\ job = [k \in JobIds |-> NoJob]
  /\ closed = FALSE
  /\ started = 0
  /\ verdicts = [id \in Ids |-> << >>]
  /\ rewards = [p \in Pairs |-> << >>]
  /\ unsaved = [p \in Pairs |-> 0]
  /\ unlearned = [p \in Pairs |-> 0]
  /\ beyond = {}

Next ==
  \/ \E a \in Anomalies : Recommend(a)
  \/ CacheHit
  \/ CacheMiss
  \/ Answered
  \/ Gated
  \/ Fallback
  \/ \E k \in ChaosCalls, p \in Injected : InjectChaos(k, p)
  \/ \E k \in JobIds : Judge(k)
  \/ \E k \in JobIds : SaveOrUpdateSkill(k)
  \/ \E k \in JobIds : UpdateQValue(k)
  \/ Close
  \/ ProcessRestarts

Spec == Init /\ [][Next]_vars

-------------------------------------------------------------------------------
(* Properties.                                                             *)

\* Types.  The values of the Q-table stay between -0.5 and 1: the bounds of the
\* SQL statement (-0.8 and 1) never come into play.  Nor does smoothing raise a
\* confidence above 1.
SkillTypeOK ==
  /\ skills \in [Ids -> Rows]
  /\ \A id \in Ids : skills[id].conf > Unit => id \in beyond
  /\ q \in [Pairs -> {NoQ} \cup (-500 .. Unit)]
  /\ loop \in [pc : {"select", "lookup", "ask"}, anomaly : Anomalies,
               action : Actions]
  /\ job \in [JobIds -> Jobs]
  /\ \A k \in JobIds : job[k].conf > Unit => job[k].id \in beyond
  /\ closed \in BOOLEAN
  /\ started \in 0 .. MaxStarts
  /\ verdicts \in [Ids -> Seq(BOOLEAN)]
  /\ rewards \in [Pairs -> Seq({-500, Unit})]
  /\ unsaved \in [Pairs -> Nat]
  /\ unlearned \in [Pairs -> Nat]
  /\ beyond \subseteq Ids

\* The moving average of the rewards, without the bounds of the statement.
Moved(v, reward) == IF v = NoQ THEN reward ELSE v + (reward - v) \div 5

Average(first, given) ==
  LET mean[i \in 0 .. Len(given)] ==
        IF i = 0 THEN first ELSE Moved(mean[i - 1], given[i])
  IN  mean[Len(given)]

\* Whatever verifications overlap, fail or are cut off, a Q-value is the moving
\* average of all rewards that its statements wrote, in their order: none of
\* them is lost, none overwrites another (store.go:590).
QLearnsEveryOutcome ==
  \A p \in Pairs : q[p] = Average(Seed[p], rewards[p])

\* A row whose confidence lets a high-risk action run from the cache was raised
\* by a success: the last verdict written to it was not a failure, whoever
\* wrote it and from whatever copy (main.go:1075).  The one exception is a row
\* that comes from a confidence above 1, which only the AI can answer: a
\* failure may leave more than the threshold of it.
HighRiskNeedsProof ==
  \A id \in Stored :
     skills[id].conf >= HighRisk => Last(verdicts[id]) \/ id \in beyond

\* Skills and Q-table are given the same verdicts: a pair has as many in one
\* table as in the other, but for those whose statement failed, those between
\* their two statements, and those cut off there by the end of the process
\* (main.go:1037-1038, 1055-1060).
LearnedTogether ==
  \A p \in Pairs :
     Len(verdicts[<< "loop", p[1], p[2] >>])
       + Len(verdicts[<< "chaos", p[1], p[2] >>]) + unsaved[p]
     = Len(rewards[p]) + unlearned[p] + Cardinality(HalfRecorded(p))

\* tests/chaos/live_chaos_test.py:169 asserts that the success count of a skill
\* grows with a verified success (here: with one that is written to its row).
SuccessesAreCounted ==
  [][\A id \in Ids :
       verdicts'[id] # verdicts[id] /\ Last(verdicts'[id]) =>
         skills'[id].succ > skills[id].succ]_vars
===============================================================================
