-------------------------- MODULE SkillLearningProofs --------------------------
(***************************************************************************)
(* What is learned stays in its range; a high-risk action that runs from   *)
(* the cache was confirmed by the last verdict on its row, unless the AI   *)
(* once answered with a confidence above 1; the two tables are given the   *)
(* same verdicts; and a Q-value is the moving average of its rewards: for  *)
(* every set of anomalies, actions and answers, every risk threshold, any  *)
(* number of overlapping verifications and of failing statements.          *)
(***************************************************************************)
EXTENDS SkillLearning, FiniteSetTheorems, WellFoundedInduction, TLAPS

-------------------------------------------------------------------------------
(* The arithmetic.                                                         *)

\* Smoothing raises no confidence above 1, and a failure leaves less than what
\* a high-risk action needs of one that is not above 1.
LEMMA SmoothedRange ==
  ASSUME NEW conf \in Nat, NEW ok \in BOOLEAN, NEW alpha \in {2, 3}
  PROVE  /\ Smoothed(conf, ok, alpha) \in Nat
         /\ Smoothed(conf, ok, alpha) > Unit => conf > Unit
         /\ ~ok /\ conf <= Unit => Smoothed(conf, ok, alpha) < HighRisk
<1>1. CASE alpha = 2
  BY <1>1 DEF Smoothed, Unit, HighRisk
<1>2. CASE alpha = 3
  BY <1>2 DEF Smoothed, Unit, HighRisk
<1> QED
  BY <1>1, <1>2

\* A Q-value stays between -0.5 and 1.
LEMMA LearnedRange ==
  ASSUME NEW old \in {NoQ} \cup (-500 .. Unit), NEW reward \in {-500, Unit}
  PROVE  Learned(old, reward) \in -500 .. Unit
BY DEF Learned, NoQ, Unit

\* A failure moves a known value by a fifth of the way to -0.5.
LEMMA LearnedFailure ==
  ASSUME NEW old \in -500 .. Unit
  PROVE  Learned(old, -500) = old + (-500 - old) \div 5
<1> DEFINE new == old + (-500 - old) \div 5
<1>1. new \in -500 .. Unit
  BY DEF Unit
<1>2. old # NoQ
  BY DEF NoQ, Unit
<1>3. Learned(old, -500) =
        LET low == IF new > Unit THEN Unit ELSE new
        IN  IF low < -800 THEN -800 ELSE low
  BY <1>2 DEF Learned
<1> HIDE DEF new
<1>4. Learned(old, -500) = new
  BY <1>1, <1>3, SMT DEF Unit
<1> QED
  BY <1>4 DEF new

\* What one failure leaves of a value, from each bound to the next.
LEMMA Falls ==
  /\ \A x \in {NoQ} \cup (-500 .. Unit) : Learned(x, -500) \in -500 .. 700
  /\ \A x \in -500 .. 700 : Learned(x, -500) \in -500 .. 460
  /\ \A x \in -500 .. 460 : Learned(x, -500) \in -500 .. 268
  /\ \A x \in -500 .. 268 : Learned(x, -500) \in -500 .. 114
  /\ \A x \in -500 .. 114 : Learned(x, -500) < 0
<1>1. ASSUME NEW x \in -500 .. Unit PROVE Learned(x, -500) \in -500 .. 700
  <2>1. x \in -500 .. Unit
    BY DEF Unit
  <2>2. x + (-500 - x) \div 5 \in -500 .. 700
    BY SMT DEF Unit
  <2> QED
    BY <2>1, <2>2, LearnedFailure
<1>2. ASSUME NEW x \in -500 .. 700 PROVE Learned(x, -500) \in -500 .. 460
  <2>1. x \in -500 .. Unit
    BY DEF Unit
  <2>2. x + (-500 - x) \div 5 \in -500 .. 460
    BY SMT DEF Unit
  <2> QED
    BY <2>1, <2>2, LearnedFailure
<1>3. ASSUME NEW x \in -500 .. 460 PROVE Learned(x, -500) \in -500 .. 268
  <2>1. x \in -500 .. Unit
    BY DEF Unit
  <2>2. x + (-500 - x) \div 5 \in -500 .. 268
    BY SMT DEF Unit
  <2> QED
    BY <2>1, <2>2, LearnedFailure
<1>4. ASSUME NEW x \in -500 .. 268 PROVE Learned(x, -500) \in -500 .. 114
  <2>1. x \in -500 .. Unit
    BY DEF Unit
  <2>2. x + (-500 - x) \div 5 \in -500 .. 114
    BY SMT DEF Unit
  <2> QED
    BY <2>1, <2>2, LearnedFailure
<1>5. ASSUME NEW x \in -500 .. 114 PROVE Learned(x, -500) < 0
  <2>1. x \in -500 .. Unit
    BY DEF Unit
  <2>2. x + (-500 - x) \div 5 < 0
    BY SMT DEF Unit
  <2> QED
    BY <2>1, <2>2, LearnedFailure
<1>6. ASSUME NEW x \in {NoQ} \cup (-500 .. Unit)
      PROVE  Learned(x, -500) \in -500 .. 700
  <2>1. CASE x = NoQ
    BY <2>1 DEF Learned
  <2>2. CASE x \in -500 .. Unit
    BY <1>1, <2>2
  <2> QED
    BY <2>1, <2>2
<1>7. \A x \in {NoQ} \cup (-500 .. Unit) : Learned(x, -500) \in -500 .. 700
  BY <1>6
<1>8. \A x \in -500 .. 700 : Learned(x, -500) \in -500 .. 460
  BY <1>2
<1>9. \A x \in -500 .. 460 : Learned(x, -500) \in -500 .. 268
  BY <1>3
<1>10. \A x \in -500 .. 268 : Learned(x, -500) \in -500 .. 114
  BY <1>4
<1>11. \A x \in -500 .. 114 : Learned(x, -500) < 0
  BY <1>5
<1> QED
  BY <1>7, <1>8, <1>9, <1>10, <1>11

\* Five failures in a row turn every Q-value negative, so that the action is
\* not accepted any more (store.go:367 and 918).
THEOREM FiveFailuresReject ==
  ASSUME NEW v \in {NoQ} \cup (-500 .. Unit)
  PROVE  LET Fail(x) == Learned(x, Reward(FALSE))
         IN  Fail(Fail(Fail(Fail(Fail(v))))) < 0
<1> DEFINE Drop(x) == Learned(x, -500)
           Upto(hi) == -500 .. hi
<1>1. Drop(v) \in Upto(700)
  <2>1. \A x \in {NoQ} \cup (-500 .. Unit) : Learned(x, -500) \in -500 .. 700
    BY Falls
  <2> QED
    BY <2>1
<1>2. \A x \in Upto(700) : Drop(x) \in Upto(460)
  BY Falls
<1>3. \A x \in Upto(460) : Drop(x) \in Upto(268)
  BY Falls
<1>4. \A x \in Upto(268) : Drop(x) \in Upto(114)
  BY Falls
<1>5. \A x \in Upto(114) : Drop(x) < 0
  BY Falls
<1> HIDE DEF Drop, Upto
<1>6. Drop(Drop(Drop(Drop(Drop(v))))) < 0
  BY <1>1, <1>2, <1>3, <1>4, <1>5
<1> QED
  BY <1>6 DEF Drop, Reward

\* Weighing does not raise a stored confidence.
LEMMA WeightRange ==
  ASSUME NEW conf \in Nat, NEW value \in 0 .. Unit
  PROVE  (conf * value) \div Unit \in 0 .. conf
<1> DEFINE x == conf * value
           top == conf * Unit
<1>1. x \in Int /\ 0 <= x /\ x <= top
  BY SMT DEF Unit
<1>2. top = 1000 * conf
  BY SMT DEF Unit
<1> HIDE DEF x, top
<1>3. x \div 1000 \in 0 .. conf
  BY <1>1, <1>2, SMT
<1> QED
  BY <1>3, SMT DEF Unit, x

LEMMA WeightedRange ==
  ASSUME SkillTypeOK, NEW id \in Ids
  PROVE  Weighted(id) \in 0 .. skills[id].conf
<1> DEFINE c == skills[id].conf
           value == q[PairOf(id)]
<1>1. PairOf(id) \in Pairs
  BY DEF PairOf, Pairs, Ids
<1>2. c \in Nat /\ value \in {NoQ} \cup (-500 .. Unit)
  BY <1>1 DEF SkillTypeOK, Rows
<1> HIDE DEF c, value
<1>3. (c * 100) \div Unit \in 0 .. c
  <2>1. 100 \in 0 .. Unit
    BY DEF Unit
  <2> QED
    BY <1>2, <2>1, WeightRange
<1>4. value \in 0 .. Unit => (c * value) \div Unit \in 0 .. c
  BY <1>2, WeightRange
<1>5. (IF value = NoQ THEN c ELSE IF value < 0 THEN 0
       ELSE (c * (IF value < 100 THEN 100 ELSE value)) \div Unit) \in 0 .. c
  <2>1. CASE value = NoQ
    BY <2>1, <1>2
  <2>2. CASE value # NoQ /\ value < 0
    BY <2>2, <1>2
  <2>3. CASE value # NoQ /\ ~(value < 0) /\ value < 100
    BY <2>3, <1>3
  <2>4. CASE value # NoQ /\ ~(value < 0) /\ ~(value < 100)
    <3>1. value \in 0 .. Unit
      BY <2>4, <1>2 DEF Unit
    <3> QED
      BY <2>4, <3>1, <1>4
  <2> QED
    BY <2>1, <2>2, <2>3, <2>4
<1> QED
  BY <1>5 DEF Weighted, c, value

-------------------------------------------------------------------------------
(* The inductive invariant: the types, the property itself, and that only  *)
(* an answer of the AI brings in a confidence above 1.                     *)

BeyondFromAI == beyond # {} => \E r \in AIAnswers : r.conf > Unit

SkillInv == SkillTypeOK /\ HighRiskNeedsProof /\ BeyondFromAI

LEMMA Defaults == NoJob \in Jobs /\ IdleLoop \in
    [pc : {"select", "lookup", "ask"}, anomaly : Anomalies, action : Actions]
<1>1. << "loop", WanDrop, RestartWan >> \in Ids
  BY LearningAssumption DEF Ids
<1>2. (CHOOSE id \in Ids : TRUE) \in Ids
  BY <1>1
<1>3. (CHOOSE a \in Anomalies : TRUE) \in Anomalies
  BY LearningAssumption
<1> QED
  BY <1>2, <1>3, LearningAssumption DEF NoJob, Jobs, IdleLoop, Unit

LEMMA NoJobConf == NoJob.conf = 0 /\ ~(NoJob.conf > Unit)
<1>1. NoJob.conf = 0
  BY DEF NoJob
<1> QED
  BY <1>1 DEF Unit

\* The verifications are finitely many, so those that are cut off are counted.
LEMMA HalfRecordedCount ==
  ASSUME NEW p \in Pairs PROVE Cardinality(HalfRecorded(p)) \in Nat
<1>1. IsFiniteSet(JobIds)
  <2>1. IsFiniteSet(Verifications) /\ IsFiniteSet(ChaosCalls)
    BY LearningAssumption
  <2> QED
    BY <2>1, FS_Union DEF JobIds
<1>2. HalfRecorded(p) \subseteq JobIds
  BY DEF HalfRecorded
<1> QED
  BY <1>1, <1>2, FS_Subset, FS_CardinalityType

LEMMA SkillInit == Init => SkillInv
<1> SUFFICES ASSUME Init PROVE SkillInv
  OBVIOUS
<1>1. NoRow \in Rows /\ ~(NoRow.conf > Unit) /\ ~(NoJob.conf > Unit)
  BY DEF NoRow, NoJob, Rows, Unit
<1>2. Seed \in [Pairs -> {NoQ} \cup (-500 .. Unit)]
  BY LearningAssumption DEF Pairs, Unit, NoQ
<1>3. 0 \in 0 .. MaxStarts /\ 0 \in Nat
  BY LearningAssumption
<1>4. verdicts \in [Ids -> Seq(BOOLEAN)]
  BY DEF Init
<1>5. rewards \in [Pairs -> Seq({-500, Unit})]
  BY DEF Init
<1>6. SkillTypeOK
  BY <1>1, <1>2, <1>3, <1>4, <1>5, Defaults DEF SkillTypeOK, Init
<1>7. HighRiskNeedsProof
  BY DEF HighRiskNeedsProof, Stored, Init
<1>8. BeyondFromAI
  BY DEF BeyondFromAI, Init
<1> QED
  BY <1>6, <1>7, <1>8 DEF SkillInv

\* The row or the AI that a confidence above 1 comes from.
Accounted(conf) == conf > Unit => beyond # {} \/ \E r \in AIAnswers : r.conf > Unit

LEMMA StoredAccounted ==
  ASSUME SkillInv, NEW id \in Ids, NEW conf \in 0 .. skills[id].conf
  PROVE  Accounted(conf)
<1>1. skills[id].conf \in Nat /\ (skills[id].conf > Unit => id \in beyond)
  BY DEF SkillInv, SkillTypeOK, Rows
<1> QED
  BY <1>1 DEF Accounted, Unit

\* Answers carry an action and a confidence; the one of an offline answer is
\* not above that of its row.
LEMMA AnswerType ==
  ASSUME SkillInv, NEW a \in Anomalies, NEW r \in Answers(a)
  PROVE  r.action \in Actions /\ r.conf \in Int /\ Accounted(r.conf)
<1>1. CASE a = WanDrop
  <2>1. CASE r \in {[action |-> id[3], conf |-> Weighted(id)] :
                      id \in {t \in TopRows(a) : Weighted(t) >= 500}}
    <3>1. PICK id \in TopRows(a) : r = [action |-> id[3], conf |-> Weighted(id)]
      BY <2>1
    <3>2. id \in Ids /\ id[3] \in Actions
      BY <3>1 DEF TopRows, Stored, Ids
    <3>3. Weighted(id) \in 0 .. skills[id].conf
      BY <3>2, WeightedRange DEF SkillInv
    <3>4. skills[id].conf \in Nat
      BY <3>2 DEF SkillInv, SkillTypeOK, Rows
    <3>5. Accounted(Weighted(id))
      BY <3>2, <3>3, StoredAccounted
    <3> QED
      BY <3>1, <3>2, <3>3, <3>4, <3>5
  <2>2. CASE r = [action |-> RestartWan, conf |-> 950]
    BY <2>2, LearningAssumption DEF Unit, Accounted
  <2> QED
    BY <1>1, <2>1, <2>2 DEF Answers, OfflineAnswers
<1>2. CASE a # WanDrop
  BY <1>2, LearningAssumption DEF Answers, Accounted
<1> QED
  BY <1>1, <1>2

\* The execution of an action starts a verification and nothing else.
LEMMA ExecuteStep ==
  ASSUME SkillInv, NEW id \in Ids, NEW conf \in Nat, Accounted(conf),
         ExecuteAndVerify(id, conf)
  PROVE  SkillInv'
<1>1. PICK v \in Verifications :
        job' \in {[job EXCEPT ![v] = Waiting(id, conf)],
                 [job EXCEPT ![v] = Failed(id, conf)]}
  BY DEF ExecuteAndVerify
<1>2. PICK new \in {Waiting(id, conf), Failed(id, conf)} : job' = [job EXCEPT ![v] = new]
  BY <1>1
<1>3. new \in Jobs /\ new.conf = conf /\ new.id = id
  <2>1. CASE new = Waiting(id, conf)
    BY <2>1 DEF Waiting, Jobs
  <2>2. CASE new = Failed(id, conf)
    BY <2>2 DEF Failed, Jobs
  <2> QED
    BY <1>2, <2>1, <2>2
<1>4. v \in JobIds /\ job \in [JobIds -> Jobs]
  BY DEF SkillInv, SkillTypeOK, JobIds
<1>5. job' \in [JobIds -> Jobs]
  BY <1>2, <1>3, <1>4
<1>6. beyond' = (IF conf > Unit THEN beyond \cup {id} ELSE beyond) /\ beyond \subseteq Ids
  BY DEF ExecuteAndVerify, SkillInv, SkillTypeOK
<1>7. \A k \in JobIds : job'[k].conf > Unit => job'[k].id \in beyond'
  <2> SUFFICES ASSUME NEW k \in JobIds, job'[k].conf > Unit
               PROVE  job'[k].id \in beyond'
    OBVIOUS
  <2>1. CASE k = v
    BY <1>2, <1>3, <1>4, <1>6, <2>1
  <2>2. CASE k # v
    <3>1. job'[k] = job[k]
      BY <1>2, <1>4, <2>2
    <3> QED
      BY <1>6, <3>1 DEF SkillInv, SkillTypeOK
  <2> QED
    BY <2>1, <2>2
<1>8. started' \in 0 .. MaxStarts
  BY LearningAssumption DEF ExecuteAndVerify, SkillInv, SkillTypeOK
<1>9. UNCHANGED << skills, q, closed, verdicts, rewards, unsaved, unlearned >>
      /\ loop' = IdleLoop
  BY DEF ExecuteAndVerify, tables
<1>10. beyond' \subseteq Ids /\ beyond \subseteq beyond'
  BY <1>6
<1>11. \A i \in Ids : skills'[i].conf > Unit => i \in beyond'
  BY <1>9, <1>10 DEF SkillInv, SkillTypeOK
<1>12. SkillTypeOK'
  BY <1>5, <1>7, <1>8, <1>9, <1>10, <1>11, Defaults DEF SkillInv, SkillTypeOK
<1>13. HighRiskNeedsProof'
  BY <1>9, <1>10 DEF SkillInv, HighRiskNeedsProof, Stored
<1>14. BeyondFromAI'
  BY <1>6 DEF SkillInv, BeyondFromAI, Accounted
<1> QED
  BY <1>12, <1>13, <1>14 DEF SkillInv

\* The one step that writes rows: the new confidence and the verdict belong
\* together.
LEMMA SaveStep ==
  ASSUME SkillInv, NEW k \in JobIds, SaveOrUpdateSkill(k)
  PROVE  SkillInv'
<1> DEFINE id == job[k].id
           ok == job[k].ok
           conf == job[k].conf
<1>1. /\ id \in Ids /\ ok \in BOOLEAN /\ conf \in Nat
      /\ job[k] \in Jobs /\ (conf > Unit => id \in beyond)
  BY DEF SkillInv, SkillTypeOK, Jobs
<1>2. Alpha(k) \in {2, 3}
  BY DEF Alpha
<1>3. /\ job' \in [JobIds -> Jobs]
      /\ \A j \in JobIds : job'[j].conf = job[j].conf /\ job'[j].id = job[j].id
  <2>1. /\ [job[k] EXCEPT !.pc = "saved"] \in Jobs
        /\ [job[k] EXCEPT !.pc = "saved"].conf = job[k].conf
        /\ [job[k] EXCEPT !.pc = "saved"].id = job[k].id
    BY <1>1 DEF Jobs
  <2>2. job' = [job EXCEPT ![k] = [job[k] EXCEPT !.pc = "saved"]]
    BY DEF SaveOrUpdateSkill
  <2>3. job \in [JobIds -> Jobs]
    BY DEF SkillInv, SkillTypeOK
  <2> QED
    BY <2>1, <2>2, <2>3
<1>4. UNCHANGED << q, loop, closed, started, rewards, unlearned, beyond >>
  BY DEF SaveOrUpdateSkill
<1>5. \A j \in JobIds : job'[j].conf > Unit => job'[j].id \in beyond'
  BY <1>3, <1>4 DEF SkillInv, SkillTypeOK
<1>6. BeyondFromAI'
  BY <1>4 DEF SkillInv, BeyondFromAI
<1>7. CASE /\ unsaved' = [unsaved EXCEPT ![PairOf(id)] = unsaved[PairOf(id)] + 1]
           /\ UNCHANGED << skills, verdicts >>
  <2>1. PairOf(id) \in Pairs
    BY <1>1 DEF Ids, PairOf, Pairs
  <2>2. unsaved \in [Pairs -> Nat]
    BY DEF SkillInv, SkillTypeOK
  <2> HIDE DEF id
  <2>3. unsaved' \in [Pairs -> Nat]
    BY <1>7, <2>1, <2>2
  <2>4. SkillTypeOK'
    BY <1>3, <1>4, <1>5, <1>7, <2>3 DEF SkillInv, SkillTypeOK
  <2>5. HighRiskNeedsProof'
    BY <1>4, <1>7 DEF SkillInv, HighRiskNeedsProof, Stored
  <2> QED
    BY <1>6, <2>4, <2>5 DEF SkillInv
<1> DEFINE row == [conf |-> Smoothed(conf, ok, Alpha(k)),
                   succ |-> IF ok THEN 1 ELSE 0,
                   fail |-> IF ok THEN 0 ELSE 1]
<1>8. CASE /\ skills' = [skills EXCEPT ![id] = row]
           /\ verdicts' = [verdicts EXCEPT ![id] = Append(verdicts[id], ok)]
           /\ UNCHANGED unsaved
  <2>1. /\ Smoothed(conf, ok, Alpha(k)) \in Nat
        /\ Smoothed(conf, ok, Alpha(k)) > Unit => conf > Unit
        /\ ~ok /\ conf <= Unit => Smoothed(conf, ok, Alpha(k)) < HighRisk
    <3> HIDE DEF conf, ok
    <3> QED
      BY <1>1, <1>2, SmoothedRange
  <2>2. /\ row \in Rows
        /\ row.conf > Unit => conf > Unit
        /\ ~ok /\ conf <= Unit => row.conf < HighRisk
    BY <2>1 DEF Rows
  <2> HIDE DEF row, conf
  <2>4. skills \in [Ids -> Rows] /\ verdicts \in [Ids -> Seq(BOOLEAN)]
    BY DEF SkillInv, SkillTypeOK
  <2>5. Append(verdicts[id], ok) \in Seq(BOOLEAN)
        /\ Last(Append(verdicts[id], ok)) = ok
    <3>1. verdicts[id] \in Seq(BOOLEAN)
      BY <2>4, <1>1
    <3> HIDE DEF id, ok
    <3> QED
      BY <3>1, <1>1 DEF Last
  <2>6. skills' \in [Ids -> Rows] /\ verdicts' \in [Ids -> Seq(BOOLEAN)]
    BY <1>8, <2>2, <2>4, <2>5
  <2>7. \A i \in Ids : skills'[i].conf > Unit => i \in beyond'
    <3> SUFFICES ASSUME NEW i \in Ids, skills'[i].conf > Unit PROVE i \in beyond'
      OBVIOUS
    <3>1. CASE i = id
      BY <1>1, <1>4, <1>8, <2>2, <2>4, <3>1
    <3>2. CASE i # id
      <4>1. skills'[i] = skills[i]
        BY <1>8, <2>4, <3>2
      <4> QED
        BY <1>4, <4>1 DEF SkillInv, SkillTypeOK
    <3> QED
      BY <3>1, <3>2
  <2>8. SkillTypeOK'
    BY <1>3, <1>4, <1>5, <1>8, <2>6, <2>7 DEF SkillInv, SkillTypeOK
  <2>9. ASSUME NEW i \in Stored', skills'[i].conf >= HighRisk
        PROVE  Last(verdicts'[i]) \/ i \in beyond'
    <3>1. i \in Ids
      BY DEF Stored
    <3>2. CASE i = id
      <4>1. skills'[i] = row /\ verdicts'[i] = Append(verdicts[id], ok)
        BY <1>8, <2>4, <3>1, <3>2
      <4>2. row.conf \in Nat
        BY <2>2 DEF Rows
      <4>3. row.conf >= HighRisk
        BY <4>1, <2>9
      <4>4. ~(row.conf < HighRisk)
        BY <4>2, <4>3 DEF HighRisk
      <4>5. ok \/ conf > Unit
        BY <4>4, <2>2, <1>1 DEF Unit
      <4> QED
        BY <4>1, <4>5, <2>5, <1>1, <1>4, <3>2
    <3>3. CASE i # id
      <4>1. skills'[i] = skills[i] /\ verdicts'[i] = verdicts[i]
        BY <1>8, <2>4, <3>1, <3>3
      <4> QED
        BY <4>1, <1>4, <2>9, <3>1 DEF SkillInv, HighRiskNeedsProof, Stored
    <3> QED
      BY <3>2, <3>3
  <2>10. HighRiskNeedsProof'
    BY <2>9 DEF HighRiskNeedsProof
  <2> QED
    BY <1>6, <2>8, <2>10 DEF SkillInv
<1> QED
  BY <1>7, <1>8 DEF SaveOrUpdateSkill

\* The one step that writes the Q-table.
LEMMA UpdateStep ==
  ASSUME SkillInv, NEW k \in JobIds, UpdateQValue(k)
  PROVE  SkillInv'
<1> DEFINE p == PairOf(job[k].id)
           reward == Reward(job[k].ok)
<1>1. p \in Pairs
  BY DEF SkillInv, SkillTypeOK, Jobs, Ids, PairOf, Pairs
<1>2. /\ job' \in [JobIds -> Jobs]
      /\ \A j \in JobIds : job'[j] \in {job[j], NoJob}
  BY Defaults DEF UpdateQValue, SkillInv, SkillTypeOK
<1>3. /\ q' \in [Pairs -> {NoQ} \cup (-500 .. Unit)]
      /\ rewards' \in [Pairs -> Seq({-500, Unit})]
      /\ unlearned' \in [Pairs -> Nat]
  <2>0. /\ q \in [Pairs -> {NoQ} \cup (-500 .. Unit)]
        /\ rewards \in [Pairs -> Seq({-500, Unit})]
        /\ unlearned \in [Pairs -> Nat]
    BY DEF SkillInv, SkillTypeOK
  <2>1. CASE /\ unlearned' = [unlearned EXCEPT ![p] = unlearned[p] + 1]
             /\ UNCHANGED << q, rewards >>
    <3>1. unlearned' \in [Pairs -> Nat]
      <4> HIDE DEF p
      <4> QED
        BY <2>0, <2>1, <1>1
    <3> QED
      BY <2>0, <2>1, <3>1
  <2>2. CASE /\ q' = [q EXCEPT ![p] = Learned(q[p], reward)]
             /\ rewards' = [rewards EXCEPT ![p] = Append(rewards[p], reward)]
             /\ UNCHANGED unlearned
    <3>1. reward \in {-500, Unit}
      BY DEF Reward
    <3> HIDE DEF p, reward
    <3>2. Learned(q[p], reward) \in -500 .. Unit
      BY <2>0, <3>1, <1>1, LearnedRange
    <3>3. Append(rewards[p], reward) \in Seq({-500, Unit})
      BY <2>0, <3>1, <1>1
    <3> QED
      BY <2>0, <2>2, <3>2, <3>3, <1>1
  <2> QED
    BY <2>1, <2>2 DEF UpdateQValue
<1>4. UNCHANGED << skills, loop, closed, started, verdicts, unsaved, beyond >>
  BY DEF UpdateQValue
<1>5. \A j \in JobIds : job'[j].conf > Unit => job'[j].id \in beyond'
  <2> SUFFICES ASSUME NEW j \in JobIds, job'[j].conf > Unit PROVE job'[j].id \in beyond'
    OBVIOUS
  <2>1. job'[j] # NoJob
    BY NoJobConf
  <2>2. job'[j] = job[j]
    BY <1>2, <2>1
  <2> QED
    BY <1>4, <2>2 DEF SkillInv, SkillTypeOK
<1>6. SkillTypeOK'
  BY <1>2, <1>3, <1>4, <1>5 DEF SkillInv, SkillTypeOK
<1>7. HighRiskNeedsProof' /\ BeyondFromAI'
  BY <1>4 DEF SkillInv, HighRiskNeedsProof, BeyondFromAI, Stored
<1> QED
  BY <1>6, <1>7 DEF SkillInv

LEMMA SkillStep == SkillInv /\ [Next]_vars => SkillInv'
<1> SUFFICES ASSUME SkillInv, [Next]_vars PROVE SkillInv'
  OBVIOUS
<1> USE DEF tables, history
<1>1. ASSUME NEW a \in Anomalies, Recommend(a) PROVE SkillInv'
  <2>1. Recommended(a) \subseteq Actions
    BY LearningAssumption
    DEF Recommended, Accepted, BestOf, Known
  <2>2. loop' \in [pc : {"select", "lookup", "ask"}, anomaly : Anomalies,
                   action : Actions]
    BY <1>1, <2>1 DEF Recommend
  <2> QED
    BY <1>1, <2>2
    DEF Recommend, SkillInv, SkillTypeOK, HighRiskNeedsProof, BeyondFromAI, Stored
<1>2. CASE CacheHit
  <2>1. PICK id \in Candidates(loop.anomaly, loop.action) :
               ExecuteAndVerify(id, skills[id].conf)
    BY <1>2 DEF CacheHit
  <2>2. id \in Ids
    BY <2>1 DEF Candidates, Stored
  <2>3. skills[id].conf \in Nat
    BY <2>2 DEF SkillInv, SkillTypeOK, Rows
  <2>4. Accounted(skills[id].conf)
    BY <2>2, <2>3, StoredAccounted
  <2> QED
    BY <2>1, <2>2, <2>3, <2>4, ExecuteStep
<1>3. CASE CacheMiss \/ Gated
  <2>1. loop' \in [pc : {"select", "lookup", "ask"}, anomaly : Anomalies,
                   action : Actions]
    <3>1. loop \in [pc : {"select", "lookup", "ask"}, anomaly : Anomalies,
                     action : Actions]
      BY DEF SkillInv, SkillTypeOK
    <3>2. CASE CacheMiss
      BY <3>1, <3>2 DEF CacheMiss
    <3>3. CASE Gated
      BY <3>3, Defaults DEF Gated
    <3> QED
      BY <1>3, <3>2, <3>3
  <2> QED
    BY <1>3, <2>1
    DEF CacheMiss, Gated, SkillInv, SkillTypeOK, HighRiskNeedsProof, BeyondFromAI,
        Stored
<1>4. CASE Answered
  <2>0. loop.anomaly \in Anomalies
    BY DEF SkillInv, SkillTypeOK
  <2>1. PICK r \in Answers(loop.anomaly) :
               /\ r.conf >= Risk[r.action]
               /\ ExecuteAndVerify(<< "loop", loop.anomaly, r.action >>, r.conf)
    BY <1>4 DEF Answered
  <2>2. r.action \in Actions /\ r.conf \in Nat /\ Accounted(r.conf)
    <3>1. r.action \in Actions /\ r.conf \in Int /\ Accounted(r.conf)
      BY <2>0, <2>1, AnswerType
    <3>2. Risk[r.action] \in 0 .. Unit
      BY <3>1, LearningAssumption
    <3> DEFINE c == r.conf
               threshold == Risk[r.action]
    <3>3. c >= threshold /\ c \in Int /\ threshold \in 0 .. Unit
      BY <2>1, <3>1, <3>2
    <3> HIDE DEF c, threshold
    <3>4. c \in Nat
      BY <3>3, SMT DEF Unit
    <3> QED
      BY <3>1, <3>4 DEF c
  <2>3. << "loop", loop.anomaly, r.action >> \in Ids
    BY <2>0, <2>2 DEF Ids
  <2> QED
    BY <2>1, <2>2, <2>3, ExecuteStep
<1>5. CASE Fallback
  <2>1. << "loop", loop.anomaly, loop.action >> \in Ids
    BY DEF SkillInv, SkillTypeOK, Ids
  <2>2. 900 \in Nat /\ Accounted(900)
    BY DEF Accounted, Unit
  <2> QED
    BY <1>5, <2>1, <2>2, ExecuteStep DEF Fallback
<1>6. ASSUME NEW k \in ChaosCalls, NEW p \in Injected, InjectChaos(k, p)
      PROVE  SkillInv'
  <2>1. PICK done \in BOOLEAN : job' = [job EXCEPT ![k] =
           [Waiting(<< "chaos", p[1], p[2] >>, 600) EXCEPT !.ok = done]]
    BY <1>6 DEF InjectChaos
  <2> DEFINE new == [Waiting(<< "chaos", p[1], p[2] >>, 600) EXCEPT !.ok = done]
  <2>2. new \in Jobs /\ new.conf = 600
    <3>1. << "chaos", p[1], p[2] >> \in Ids /\ 600 \in Nat
      BY LearningAssumption DEF Ids
    <3> DEFINE w == Waiting(<< "chaos", p[1], p[2] >>, 600)
    <3>2. w \in Jobs /\ w.conf = 600
      BY <3>1 DEF Waiting, Jobs
    <3>3. new = [w EXCEPT !.ok = done]
      OBVIOUS
    <3> HIDE DEF w, new
    <3> QED
      BY <3>2, <3>3 DEF Jobs
  <2> HIDE DEF new
  <2>3. job \in [JobIds -> Jobs] /\ k \in JobIds /\ job' = [job EXCEPT ![k] = new]
    BY <2>1 DEF SkillInv, SkillTypeOK, JobIds, new
  <2>4. job' \in [JobIds -> Jobs] /\ \A j \in JobIds : job'[j] \in {job[j], new}
    BY <2>2, <2>3
  <2>5. started' \in 0 .. MaxStarts
    BY <1>6, LearningAssumption DEF InjectChaos, SkillInv, SkillTypeOK
  <2>6. UNCHANGED << tables, loop, closed, verdicts, rewards, unsaved, unlearned, beyond >>
    BY <1>6 DEF InjectChaos
  <2>7. \A j \in JobIds : job'[j].conf > Unit => job'[j].id \in beyond'
    <3> SUFFICES ASSUME NEW j \in JobIds, job'[j].conf > Unit
                 PROVE  job'[j].id \in beyond'
      OBVIOUS
    <3>1. ~(new.conf > Unit)
      BY <2>2 DEF Unit
    <3>2. job'[j] = job[j]
      BY <2>4, <3>1
    <3> QED
      BY <2>6, <3>2 DEF SkillInv, SkillTypeOK
  <2> QED
    BY <2>4, <2>5, <2>6, <2>7
    DEF SkillInv, SkillTypeOK, HighRiskNeedsProof, BeyondFromAI, Stored
<1>7. ASSUME NEW k \in JobIds, Judge(k) PROVE SkillInv'
  <2>1. PICK ok \in BOOLEAN :
           job' = [job EXCEPT ![k].pc = "judged", ![k].ok = ok]
    BY <1>7 DEF Judge
  <2> DEFINE new == [job[k] EXCEPT !.pc = "judged", !.ok = ok]
  <2>2. new \in Jobs /\ new.conf = job[k].conf /\ new.id = job[k].id
    <3>1. job[k] \in Jobs
      BY DEF SkillInv, SkillTypeOK
    <3> QED
      BY <3>1 DEF Jobs
  <2>3. job \in [JobIds -> Jobs] /\ job' = [job EXCEPT ![k] = new]
    BY <2>1 DEF SkillInv, SkillTypeOK
  <2> HIDE DEF new
  <2>4. /\ job' \in [JobIds -> Jobs]
        /\ \A j \in JobIds : job'[j].conf = job[j].conf /\ job'[j].id = job[j].id
    BY <2>2, <2>3
  <2>5. UNCHANGED << tables, loop, closed, history >>
    BY <1>7 DEF Judge
  <2>6. \A j \in JobIds : job'[j].conf > Unit => job'[j].id \in beyond'
    BY <2>4, <2>5 DEF SkillInv, SkillTypeOK
  <2> QED
    BY <2>4, <2>5, <2>6
    DEF SkillInv, SkillTypeOK, HighRiskNeedsProof, BeyondFromAI, Stored
<1>8. ASSUME NEW k \in JobIds, SaveOrUpdateSkill(k) PROVE SkillInv'
  BY <1>8, SaveStep
<1>9. ASSUME NEW k \in JobIds, UpdateQValue(k) PROVE SkillInv'
  BY <1>9, UpdateStep
<1>10. CASE Close
  BY <1>10 DEF Close, SkillInv, SkillTypeOK, HighRiskNeedsProof, BeyondFromAI, Stored
<1>11. CASE ProcessRestarts
  <2>1. unlearned' \in [Pairs -> Nat]
    BY <1>11, HalfRecordedCount DEF ProcessRestarts, SkillInv, SkillTypeOK
  <2>2. /\ job' \in [JobIds -> Jobs]
        /\ \A k \in JobIds : ~(job'[k].conf > Unit)
    BY <1>11, Defaults, NoJobConf DEF ProcessRestarts
  <2>3. /\ loop' = IdleLoop /\ closed' = FALSE
        /\ UNCHANGED << tables, started, verdicts, rewards, unsaved, beyond >>
    BY <1>11 DEF ProcessRestarts
  <2> QED
    BY <2>1, <2>2, <2>3, Defaults
    DEF SkillInv, SkillTypeOK, HighRiskNeedsProof, BeyondFromAI, Stored
<1>12. CASE UNCHANGED vars
  BY <1>12 DEF vars, SkillInv, SkillTypeOK, HighRiskNeedsProof, BeyondFromAI, Stored
<1> QED
  BY <1>1, <1>2, <1>3, <1>4, <1>5, <1>6, <1>7, <1>8, <1>9, <1>10, <1>11, <1>12
  DEF Next

LEMMA SkillInvariance == Spec => []SkillInv
  BY SkillInit, SkillStep, PTL DEF Spec

-------------------------------------------------------------------------------

\* Everything learned keeps its type; in particular Q-values stay between -0.5
\* and 1, so the bounds of the SQL statement are never reached (store.go:594),
\* and no smoothing raises a confidence above 1.
THEOREM LearningTypes == Spec => []SkillTypeOK
<1>1. SkillInv => SkillTypeOK
  BY DEF SkillInv
<1> QED
  BY SkillInvariance, <1>1, PTL

\* A high-risk action runs from the cache only after a success was the last
\* verdict on its row, whatever verifications overlap and whatever statements
\* fail (main.go:1075), unless its row comes from a confidence above 1.
THEOREM CacheNeedsProof == Spec => []HighRiskNeedsProof
<1>1. SkillInv => HighRiskNeedsProof
  BY DEF SkillInv
<1> QED
  BY SkillInvariance, <1>1, PTL

\* Confidences above 1 come from the AI alone: where it keeps to 1, which
\* ai_client.go:334 does not ask of it, no row is excepted.
THEOREM OnlyTheAIExceedsOne ==
  ASSUME \A r \in AIAnswers : r.conf <= Unit
  PROVE  Spec => [](\A id \in Stored : skills[id].conf >= HighRisk => Last(verdicts[id]))
<1>1. SkillInv => \A id \in Stored : skills[id].conf >= HighRisk => Last(verdicts[id])
  <2>1. \A r \in AIAnswers : ~(r.conf > Unit)
    BY LearningAssumption DEF Unit
  <2> QED
    BY <2>1 DEF SkillInv, BeyondFromAI, HighRiskNeedsProof
<1> QED
  BY SkillInvariance, <1>1, PTL

-------------------------------------------------------------------------------
(* Which anomalies the similarity of states can ever decide.               *)

SeededIsKnown == \A p \in Pairs : Seed[p] # NoQ => q[p] # NoQ

\* Only UpdateQValue writes the table, and what it learns is a value.
LEMMA SeededStep ==
  ASSUME SkillInv, SeededIsKnown, [Next]_vars PROVE SeededIsKnown'
<1>1. ASSUME NEW k \in JobIds, UpdateQValue(k) PROVE SeededIsKnown'
  <2> DEFINE p == PairOf(job[k].id)
             reward == Reward(job[k].ok)
  <2>1. CASE UNCHANGED q
    BY <2>1 DEF SeededIsKnown
  <2>2. CASE q' = [q EXCEPT ![p] = Learned(q[p], reward)]
    <3>1. q' = [q EXCEPT ![p] = Learned(q[p], reward)]
      BY <2>2
    <3>2. q \in [Pairs -> {NoQ} \cup (-500 .. Unit)] /\ p \in Pairs
      BY DEF SkillInv, SkillTypeOK, Jobs, Ids, PairOf, Pairs
    <3>3. reward \in {-500, Unit}
      BY DEF Reward
    <3> HIDE DEF p, reward
    <3>4. Learned(q[p], reward) \in -500 .. Unit
      BY <3>2, <3>3, LearnedRange
    <3>5. Learned(q[p], reward) # NoQ
      BY <3>4 DEF NoQ, Unit
    <3>6. \A r \in Pairs : q[r] # NoQ => q'[r] # NoQ
      BY <3>1, <3>2, <3>5
    <3> QED
      BY <3>6 DEF SeededIsKnown
  <2> QED
    BY <1>1, <2>1, <2>2 DEF UpdateQValue
<1>2. CASE UNCHANGED q
  BY <1>2 DEF SeededIsKnown
<1>3. (\E k \in JobIds : UpdateQValue(k)) \/ UNCHANGED q
  BY DEF Next, vars, tables, Recommend, CacheHit, CacheMiss, Answered, Gated,
         Fallback, ExecuteAndVerify, InjectChaos, Judge, SaveOrUpdateSkill,
         Close, ProcessRestarts
<1> QED
  BY <1>1, <1>2, <1>3

\* An anomaly with a seeded row never takes the action of a similar state: its
\* own best row answers, or the default action.  Every anomaly that the loop
\* raises has one (store.go:277), so that the interpolation of store.go:925 is
\* left to names that only tests give.
THEOREM SeededIsNeverInterpolated ==
  Spec => [](\A p \in Pairs : Seed[p] # NoQ =>
               Recommended(p[1]) \subseteq {DefaultAction[p[1]]} \cup Accepted(p[1]))
<1>1. Init => SeededIsKnown
  BY DEF Init, SeededIsKnown
<1>2. SkillInv /\ SeededIsKnown /\ [Next]_vars => SeededIsKnown'
  BY SeededStep
<1>3. SeededIsKnown =>
        \A p \in Pairs : Seed[p] # NoQ =>
          Recommended(p[1]) \subseteq {DefaultAction[p[1]]} \cup Accepted(p[1])
  <2> SUFFICES ASSUME SeededIsKnown, NEW p \in Pairs, Seed[p] # NoQ
               PROVE  Recommended(p[1]) \subseteq
                        {DefaultAction[p[1]]} \cup Accepted(p[1])
    OBVIOUS
  <2>1. p = << p[1], p[2] >> /\ p[2] \in Actions /\ q[p] # NoQ
    BY DEF Pairs, SeededIsKnown
  <2>2. p[2] \in Known(p[1])
    BY <2>1 DEF Known
  <2> QED
    BY <2>2 DEF Recommended
<1> QED
  BY SkillInvariance, <1>1, <1>2, <1>3, PTL DEF Spec

-------------------------------------------------------------------------------
(* The two tables learn from the same verdicts.                            *)

TogetherInv == SkillInv /\ LearnedTogether

\* The verdicts given to the first statement, whether or not it worked.
Given(p) == Len(verdicts[<< "loop", p[1], p[2] >>]) + Len(verdicts[<< "chaos", p[1], p[2] >>])
            + unsaved[p]

LEMMA Counts ==
  ASSUME SkillTypeOK, NEW p \in Pairs
  PROVE  /\ IsFiniteSet(HalfRecorded(p)) /\ Cardinality(HalfRecorded(p)) \in Nat
         /\ Given(p) \in Nat /\ Len(rewards[p]) \in Nat /\ unlearned[p] \in Nat
         /\ << "loop", p[1], p[2] >> \in Ids /\ << "chaos", p[1], p[2] >> \in Ids
<1>1. IsFiniteSet(JobIds)
  BY LearningAssumption, FS_Union DEF JobIds
<1>2. HalfRecorded(p) \in SUBSET JobIds
  BY DEF HalfRecorded
<1>3. << "loop", p[1], p[2] >> \in Ids /\ << "chaos", p[1], p[2] >> \in Ids
  BY DEF Pairs, Ids
<1>4. /\ Len(verdicts[<< "loop", p[1], p[2] >>]) \in Nat
      /\ Len(verdicts[<< "chaos", p[1], p[2] >>]) \in Nat
  <2>1. \A id \in Ids : verdicts[id] \in Seq(BOOLEAN)
    BY DEF SkillTypeOK
  <2> QED
    BY <1>3, <2>1
<1>5. rewards[p] \in Seq({-500, Unit}) /\ unlearned[p] \in Nat /\ unsaved[p] \in Nat
  BY DEF SkillTypeOK
<1>6. Given(p) \in Nat
  <2> DEFINE m == Len(verdicts[<< "loop", p[1], p[2] >>])
             n == Len(verdicts[<< "chaos", p[1], p[2] >>])
  <2>1. m \in Nat /\ n \in Nat
    BY <1>4
  <2>2. Given(p) = m + n + unsaved[p]
    BY DEF Given
  <2> HIDE DEF m, n
  <2> QED
    BY <1>5, <2>1, <2>2
<1>7. Len(rewards[p]) \in Nat
  BY <1>5
<1> QED
  BY <1>1, <1>2, <1>3, <1>5, <1>6, <1>7, FS_Subset, HalfRecordedCount

\* A step that records nothing and moves no verification into or out of the
\* place between the two statements keeps the balance.
LEMMA BalanceKept ==
  ASSUME LearnedTogether, UNCHANGED << verdicts, rewards, unsaved, unlearned >>,
         \A k \in JobIds : \/ job'[k] = job[k]
                           \/ job[k].pc # "saved" /\ job'[k].pc # "saved"
  PROVE  LearnedTogether'
<1>1. ASSUME NEW p \in Pairs PROVE HalfRecorded(p)' = HalfRecorded(p)
  BY DEF HalfRecorded
<1> QED
  BY <1>1 DEF LearnedTogether

\* An execution: the slot that it takes is free.
LEMMA ExecuteTogether ==
  ASSUME TogetherInv, NEW id, NEW conf, ExecuteAndVerify(id, conf)
  PROVE  LearnedTogether'
<1>1. PICK v \in Verifications :
        /\ job[v].pc = "idle"
        /\ job' \in {[job EXCEPT ![v] = Waiting(id, conf)],
                    [job EXCEPT ![v] = Failed(id, conf)]}
  BY DEF ExecuteAndVerify
<1>2. v \in JobIds /\ job \in [JobIds -> Jobs]
  BY DEF TogetherInv, SkillInv, SkillTypeOK, JobIds
<1>3. Waiting(id, conf).pc = "wait" /\ Failed(id, conf).pc = "judged"
  BY DEF Waiting, Failed
<1>4. \A k \in JobIds : \/ job'[k] = job[k]
                        \/ job[k].pc # "saved" /\ job'[k].pc # "saved"
  BY <1>1, <1>2, <1>3
<1>5. UNCHANGED << verdicts, rewards, unsaved, unlearned >>
  BY DEF ExecuteAndVerify
<1> QED
  BY <1>4, <1>5, BalanceKept DEF TogetherInv

\* The verification's first statement: one verdict more, and one verification
\* more between the two statements.
LEMMA SaveTogether ==
  ASSUME TogetherInv, NEW k \in JobIds, SaveOrUpdateSkill(k)
  PROVE  LearnedTogether'
<1> DEFINE id == job[k].id
           ok == job[k].ok
<1>1. /\ SkillTypeOK /\ job \in [JobIds -> Jobs] /\ job[k].pc = "judged"
      /\ id \in Ids /\ ok \in BOOLEAN
  BY DEF TogetherInv, SkillInv, SkillTypeOK, Jobs, SaveOrUpdateSkill
<1>2. job' = [job EXCEPT ![k].pc = "saved"] /\ UNCHANGED << rewards, unlearned >>
  BY DEF SaveOrUpdateSkill
<1>3. /\ job'[k].pc = "saved" /\ job'[k].id = id
      /\ \A j \in JobIds : j # k => job'[j] = job[j]
  BY <1>1, <1>2 DEF Jobs
<1>4. verdicts \in [Ids -> Seq(BOOLEAN)] /\ unsaved \in [Pairs -> Nat]
  BY <1>1 DEF SkillTypeOK
<1>5. \/ /\ verdicts' = [verdicts EXCEPT ![id] = Append(verdicts[id], ok)]
         /\ unsaved' = unsaved
      \/ /\ unsaved' = [unsaved EXCEPT ![PairOf(id)] = unsaved[PairOf(id)] + 1]
         /\ verdicts' = verdicts
  BY DEF SaveOrUpdateSkill
<1> HIDE DEF id, ok
<1>6. Len(Append(verdicts[id], ok)) = Len(verdicts[id]) + 1
  <2>1. verdicts[id] \in Seq(BOOLEAN)
    BY <1>1, <1>4
  <2> QED
    BY <1>1, <2>1
<1> SUFFICES ASSUME NEW p \in Pairs
             PROVE  Given(p)' = Len(rewards[p]) + unlearned[p] + Cardinality(HalfRecorded(p)')
  BY <1>2 DEF LearnedTogether, Given
<1>7. Given(p) = Len(rewards[p]) + unlearned[p] + Cardinality(HalfRecorded(p))
  BY DEF TogetherInv, LearnedTogether, Given
<1> DEFINE l == << "loop", p[1], p[2] >>
           c == << "chaos", p[1], p[2] >>
           m == Len(verdicts[l])
           n == Len(verdicts[c])
           m1 == Len(verdicts'[l])
           n1 == Len(verdicts'[c])
<1>8. /\ IsFiniteSet(HalfRecorded(p)) /\ Cardinality(HalfRecorded(p)) \in Nat
      /\ Len(rewards[p]) \in Nat /\ unlearned[p] \in Nat
      /\ l \in Ids /\ c \in Ids /\ l # c
  BY <1>1, Counts
<1>9. Given(p) = m + n + unsaved[p] /\ Given(p)' = m1 + n1 + unsaved'[p]
  BY DEF Given
<1>10. m \in Nat /\ n \in Nat /\ unsaved[p] \in Nat
  <2>1. verdicts[l] \in Seq(BOOLEAN) /\ verdicts[c] \in Seq(BOOLEAN)
    BY <1>4, <1>8
  <2> HIDE DEF l, c
  <2> QED
    BY <1>4, <2>1
<1>11. CASE PairOf(id) = p
  <2>1. id = l \/ id = c
    BY <1>1, <1>11 DEF Ids, PairOf
  <2>2. HalfRecorded(p)' = HalfRecorded(p) \cup {k} /\ k \notin HalfRecorded(p)
    BY <1>1, <1>3, <1>11 DEF HalfRecorded
  <2>3. Cardinality(HalfRecorded(p)') = Cardinality(HalfRecorded(p)) + 1
    BY <1>8, <2>2, FS_AddElement
  <2> HIDE DEF l, c
  <2>4. \/ m1 = m + 1 /\ n1 = n /\ unsaved'[p] = unsaved[p]
        \/ m1 = m /\ n1 = n + 1 /\ unsaved'[p] = unsaved[p]
        \/ m1 = m /\ n1 = n /\ unsaved'[p] = unsaved[p] + 1
    <3>1. CASE /\ verdicts' = [verdicts EXCEPT ![id] = Append(verdicts[id], ok)]
               /\ unsaved' = unsaved
      <4>1. CASE id = l
        BY <1>4, <1>6, <1>8, <3>1, <4>1
      <4>2. CASE id = c
        BY <1>4, <1>6, <1>8, <3>1, <4>2
      <4> QED
        BY <2>1, <4>1, <4>2
    <3>2. CASE /\ unsaved' = [unsaved EXCEPT ![PairOf(id)] = unsaved[PairOf(id)] + 1]
               /\ verdicts' = verdicts
      BY <1>4, <1>11, <3>2
    <3> QED
      BY <1>5, <3>1, <3>2
  <2> HIDE DEF m, n, m1, n1
  <2>5. Given(p)' = Given(p) + 1 /\ Given(p) \in Nat
    BY <1>9, <1>10, <2>4
  <2> QED
    BY <1>7, <1>8, <2>3, <2>5
<1>12. CASE PairOf(id) # p
  <2>0. p = << p[1], p[2] >>
    BY DEF Pairs
  <2>1. id # l /\ id # c
    BY <1>12, <2>0 DEF PairOf
  <2>2. HalfRecorded(p)' = HalfRecorded(p)
    BY <1>1, <1>3, <1>12 DEF HalfRecorded
  <2> HIDE DEF l, c
  <2>3. verdicts'[l] = verdicts[l] /\ verdicts'[c] = verdicts[c] /\ unsaved'[p] = unsaved[p]
    BY <1>4, <1>5, <1>8, <1>12, <2>1
  <2> QED
    BY <1>7, <1>9, <2>2, <2>3
<1> QED
  BY <1>11, <1>12

\* The second statement: the verification is done, and its reward learned or
\* lost to a statement that failed.
LEMMA UpdateTogether ==
  ASSUME TogetherInv, NEW k \in JobIds, UpdateQValue(k)
  PROVE  LearnedTogether'
<1> DEFINE r == PairOf(job[k].id)
           reward == Reward(job[k].ok)
<1>1. /\ SkillTypeOK /\ job \in [JobIds -> Jobs] /\ job[k].pc = "saved"
      /\ r \in Pairs /\ reward \in {-500, Unit} /\ NoJob.pc = "idle"
  BY DEF TogetherInv, SkillInv, SkillTypeOK, Jobs, UpdateQValue, NoJob, Ids, PairOf,
     Pairs, Reward
<1>2. job' = [job EXCEPT ![k] = NoJob] /\ verdicts' = verdicts /\ unsaved' = unsaved
  BY DEF UpdateQValue
<1>3. job'[k] = NoJob /\ \A j \in JobIds : j # k => job'[j] = job[j]
  BY <1>1, <1>2
<1>4. \/ /\ unlearned' = [unlearned EXCEPT ![r] = unlearned[r] + 1]
         /\ rewards' = rewards
      \/ /\ unlearned' = unlearned
         /\ rewards' = [rewards EXCEPT ![r] = Append(rewards[r], reward)]
  BY DEF UpdateQValue
<1>5. unlearned \in [Pairs -> Nat] /\ rewards \in [Pairs -> Seq({-500, Unit})]
  BY <1>1 DEF SkillTypeOK
<1>6. ASSUME NEW p \in Pairs
      PROVE  HalfRecorded(p)' = IF r = p THEN HalfRecorded(p) \ {k} ELSE HalfRecorded(p)
  BY <1>1, <1>3 DEF HalfRecorded
<1>7. k \in HalfRecorded(r)
  BY <1>1 DEF HalfRecorded
<1> HIDE DEF r, reward
<1>8. /\ Len(Append(rewards[r], reward)) = Len(rewards[r]) + 1
      /\ Len(rewards[r]) \in Nat
  <2>1. rewards[r] \in Seq({-500, Unit})
    BY <1>1, <1>5
  <2> QED
    BY <1>1, <2>1
<1> SUFFICES ASSUME NEW p \in Pairs
             PROVE  Given(p)' = Len(rewards'[p]) + unlearned'[p] + Cardinality(HalfRecorded(p)')
  BY DEF LearnedTogether, Given
<1>9. Given(p)' = Given(p)
  BY <1>2 DEF Given
<1>10. Given(p) = Len(rewards[p]) + unlearned[p] + Cardinality(HalfRecorded(p))
  BY DEF TogetherInv, LearnedTogether, Given
<1>11. /\ IsFiniteSet(HalfRecorded(p)) /\ Cardinality(HalfRecorded(p)) \in Nat
       /\ Len(rewards[p]) \in Nat /\ unlearned[p] \in Nat
  BY <1>1, Counts
<1>12. CASE p = r
  <2>1. Cardinality(HalfRecorded(p)') = Cardinality(HalfRecorded(p)) - 1
    BY <1>6, <1>7, <1>11, <1>12, FS_RemoveElement
  <2>2. Len(rewards'[p]) + unlearned'[p] = Len(rewards[p]) + unlearned[p] + 1
    <3>1. CASE unlearned' = [unlearned EXCEPT ![r] = unlearned[r] + 1] /\ rewards' = rewards
      BY <1>5, <1>11, <1>12, <3>1
    <3>2. CASE unlearned' = unlearned /\ rewards' = [rewards EXCEPT ![r] = Append(rewards[r], reward)]
      <4>1. rewards'[p] = Append(rewards[p], reward)
        BY <1>1, <1>5, <1>12, <3>2
      <4>2. Len(rewards'[p]) = Len(rewards[p]) + 1
        BY <1>8, <1>12, <4>1
      <4> QED
        BY <1>11, <3>2, <4>2
    <3> QED
      BY <1>4, <3>1, <3>2
  <2>3. Len(rewards'[p]) \in Int /\ unlearned'[p] \in Int
    <3>1. CASE unlearned' = [unlearned EXCEPT ![r] = unlearned[r] + 1] /\ rewards' = rewards
      BY <1>5, <1>11, <1>12, <3>1
    <3>2. CASE unlearned' = unlearned /\ rewards' = [rewards EXCEPT ![r] = Append(rewards[r], reward)]
      <4>1. rewards'[p] = Append(rewards[p], reward)
        BY <1>1, <1>5, <1>12, <3>2
      <4> QED
        BY <1>8, <1>11, <1>12, <3>2, <4>1
    <3> QED
      BY <1>4, <3>1, <3>2
  <2> QED
    BY <1>9, <1>10, <1>11, <2>1, <2>2, <2>3
<1>13. CASE p # r
  <2>1. HalfRecorded(p)' = HalfRecorded(p)
    BY <1>6, <1>13
  <2>2. rewards'[p] = rewards[p] /\ unlearned'[p] = unlearned[p]
    BY <1>4, <1>5, <1>13
  <2> QED
    BY <1>9, <1>10, <2>1, <2>2
<1> QED
  BY <1>12, <1>13

LEMMA TogetherStep == TogetherInv /\ [Next]_vars => TogetherInv'
<1> SUFFICES ASSUME TogetherInv, [Next]_vars PROVE TogetherInv'
  OBVIOUS
<1> USE DEF tables, history
<1>1. SkillInv' /\ SkillTypeOK /\ job \in [JobIds -> Jobs]
  BY SkillStep DEF TogetherInv, SkillInv, SkillTypeOK
<1>2. NoJob.pc = "idle"
  BY DEF NoJob
<1>3. SUFFICES LearnedTogether'
  BY <1>1 DEF TogetherInv
<1>4. CASE \/ \E a \in Anomalies : Recommend(a)
           \/ CacheMiss \/ Gated \/ Close \/ UNCHANGED vars
  <2>1. UNCHANGED << job, verdicts, rewards, unsaved, unlearned >>
    BY <1>4 DEF Recommend, CacheMiss, Gated, Close, vars
  <2> QED
    BY <2>1, BalanceKept DEF TogetherInv
<1>5. CASE CacheHit \/ Answered \/ Fallback
  <2>1. \E id, conf : ExecuteAndVerify(id, conf)
    <3>1. CASE CacheHit
      BY <3>1 DEF CacheHit
    <3>2. CASE Answered
      BY <3>2 DEF Answered
    <3>3. CASE Fallback
      BY <3>3 DEF Fallback
    <3> QED
      BY <1>5, <3>1, <3>2, <3>3
  <2> QED
    BY <2>1, ExecuteTogether
<1>6. ASSUME NEW k \in ChaosCalls, NEW p \in Injected, InjectChaos(k, p)
      PROVE  LearnedTogether'
  <2>1. PICK done \in BOOLEAN : job' = [job EXCEPT ![k] =
           [Waiting(<< "chaos", p[1], p[2] >>, 600) EXCEPT !.ok = done]]
    BY <1>6 DEF InjectChaos
  <2>2. [Waiting(<< "chaos", p[1], p[2] >>, 600) EXCEPT !.ok = done].pc = "wait"
    BY DEF Waiting
  <2>3. k \in JobIds
    BY DEF JobIds
  <2>4. job'[k].pc = "wait" /\ \A j \in JobIds : j # k => job'[j] = job[j]
    BY <1>1, <2>1, <2>2, <2>3
  <2>5. job[k].pc = "idle" /\ UNCHANGED << verdicts, rewards, unsaved, unlearned >>
    BY <1>6 DEF InjectChaos
  <2> QED
    BY <2>4, <2>5, BalanceKept DEF TogetherInv
<1>7. ASSUME NEW k \in JobIds, Judge(k) PROVE LearnedTogether'
  <2>1. PICK ok \in BOOLEAN :
           job' = [job EXCEPT ![k].pc = "judged", ![k].ok = ok]
    BY <1>7 DEF Judge
  <2>2. /\ job[k].pc = "wait" /\ job'[k].pc = "judged"
        /\ \A j \in JobIds : j # k => job'[j] = job[j]
    BY <1>1, <1>7, <2>1 DEF Judge, Jobs
  <2>3. UNCHANGED << verdicts, rewards, unsaved, unlearned >>
    BY <1>7 DEF Judge
  <2> QED
    BY <2>2, <2>3, BalanceKept DEF TogetherInv
<1>8. ASSUME NEW k \in JobIds, SaveOrUpdateSkill(k) \/ UpdateQValue(k)
      PROVE  LearnedTogether'
  BY <1>8, SaveTogether, UpdateTogether
<1>9. CASE ProcessRestarts
  <2>1. /\ job' = [k \in JobIds |-> NoJob]
        /\ unlearned' = [p \in Pairs |-> unlearned[p] + Cardinality(HalfRecorded(p))]
        /\ UNCHANGED << verdicts, rewards, unsaved >>
    BY <1>9 DEF ProcessRestarts
  <2>2. ASSUME NEW p \in Pairs
        PROVE  Given(p)' = Len(rewards'[p]) + unlearned'[p] + Cardinality(HalfRecorded(p)')
    <3>1. HalfRecorded(p)' = {}
      BY <1>2, <2>1 DEF HalfRecorded
    <3>2. Cardinality(HalfRecorded(p)') = 0
      BY <3>1, FS_EmptySet
    <3>3. Given(p)' = Given(p)
      BY <2>1 DEF Given
    <3>4. Given(p) = Len(rewards[p]) + unlearned[p] + Cardinality(HalfRecorded(p))
      BY DEF TogetherInv, LearnedTogether, Given
    <3>5. /\ Cardinality(HalfRecorded(p)) \in Nat
          /\ Len(rewards[p]) \in Nat /\ unlearned[p] \in Nat
      BY <1>1, Counts
    <3> QED
      BY <2>1, <3>2, <3>3, <3>4, <3>5
  <2> QED
    BY <2>2 DEF LearnedTogether, Given
<1> QED
  BY <1>4, <1>5, <1>6, <1>7, <1>8, <1>9 DEF Next

\* main.go:1037-1038 and 1055-1060: a verdict that was given to the skills has
\* reached the Q-table, or is on its way, or its statement failed, or it was cut
\* off by the end of the process; none reaches a table twice; whatever the
\* number of anomalies, actions and verifications.
THEOREM TablesAgree == Spec => []LearnedTogether
<1>1. Init => TogetherInv
  <2> SUFFICES ASSUME Init PROVE TogetherInv
    OBVIOUS
  <2>1. SkillInv
    BY SkillInit
  <2>3. ASSUME NEW p \in Pairs
        PROVE  Given(p) = Len(rewards[p]) + unlearned[p] + Cardinality(HalfRecorded(p))
    <3>1. HalfRecorded(p) = {}
      BY DEF Init, HalfRecorded, NoJob
    <3>2. Cardinality(HalfRecorded(p)) = 0
      BY <3>1, FS_EmptySet
    <3>3. << "loop", p[1], p[2] >> \in Ids /\ << "chaos", p[1], p[2] >> \in Ids
      BY DEF Pairs, Ids
    <3>4. Given(p) = 0 /\ Len(rewards[p]) = 0 /\ unlearned[p] = 0
      BY <3>3 DEF Init, Given
    <3> QED
      BY <3>2, <3>4
  <2>4. LearnedTogether
    BY <2>3 DEF LearnedTogether, Given
  <2> QED
    BY <2>1, <2>4 DEF TogetherInv
<1>2. TogetherInv => LearnedTogether
  BY DEF TogetherInv
<1> QED
  BY <1>1, <1>2, TogetherStep, PTL DEF Spec

-------------------------------------------------------------------------------
(* A Q-value is the moving average of its rewards.  The invariant keeps the *)
(* partial values of the average, from the seed to the entry of the table: *)
(* they show that the recursive definition of Average has a solution.      *)

QValues == {NoQ} \cup (-500 .. Unit)

Averages(v, first, given, final) ==
  /\ v \in [0 .. Len(given) -> QValues]
  /\ v[0] = first /\ v[Len(given)] = final
  /\ \A i \in 1 .. Len(given) : v[i] = Moved(v[i - 1], given[i])

QIsMovingAverage ==
  \A p \in Pairs : \E v : Averages(v, Seed[p], rewards[p], q[p])

\* The bounds of the SQL statement change nothing.
LEMMA LearnedIsMoved ==
  ASSUME NEW old \in QValues, NEW reward \in {-500, Unit}
  PROVE  Learned(old, reward) = Moved(old, reward) /\ Moved(old, reward) \in QValues
<1>1. CASE old = NoQ
  BY <1>1 DEF Learned, Moved, QValues, Unit
<1>2. CASE old # NoQ
  <2> DEFINE new == old + (reward - old) \div 5
  <2>1. old \in -500 .. Unit
    BY <1>2 DEF QValues
  <2>2. new \in -500 .. Unit
    <3>1. CASE reward = -500
      BY <2>1, <3>1, SMT DEF Unit
    <3>2. CASE reward = Unit
      BY <2>1, <3>2, SMT DEF Unit
    <3> QED
      BY <3>1, <3>2
  <2>3. Learned(old, reward) =
          LET low == IF new > Unit THEN Unit ELSE new
          IN  IF low < -800 THEN -800 ELSE low
    BY <1>2 DEF Learned
  <2>4. Moved(old, reward) = new
    BY <1>2 DEF Moved
  <2> HIDE DEF new
  <2>5. Learned(old, reward) = new
    BY <2>2, <2>3, SMT DEF Unit
  <2> QED
    BY <2>2, <2>4, <2>5 DEF QValues
<1> QED
  BY <1>1, <1>2

\* One reward more is one partial value more.
LEMMA AverageExtends ==
  ASSUME NEW first, NEW given \in Seq({-500, Unit}), NEW old \in QValues,
         NEW reward \in {-500, Unit}, NEW v, Averages(v, first, given, old)
  PROVE  \E w : Averages(w, first, Append(given, reward), Learned(old, reward))
<1> DEFINE n == Len(given)
           more == Append(given, reward)
           new == Learned(old, reward)
           w == [i \in 0 .. n + 1 |-> IF i = n + 1 THEN new ELSE v[i]]
<1>1. n \in Nat /\ Len(more) = n + 1 /\ more[n + 1] = reward
      /\ \A i \in 1 .. n : more[i] = given[i]
  OBVIOUS
<1>2. new = Moved(old, reward) /\ new \in QValues
  BY LearnedIsMoved
<1>3. /\ v \in [0 .. n -> QValues] /\ v[0] = first /\ v[n] = old
      /\ \A i \in 1 .. n : v[i] = Moved(v[i - 1], given[i])
  BY DEF Averages
<1> HIDE DEF n, more, new
<1>4. w \in [0 .. n + 1 -> QValues]
  BY <1>1, <1>2, <1>3
<1>5. w[n + 1] = new /\ \A i \in 0 .. n : w[i] = v[i]
  BY <1>1
<1> HIDE DEF w
<1>6. w[0] = first /\ w[n] = old
  BY <1>1, <1>3, <1>5
<1>7. ASSUME NEW i \in 1 .. n + 1 PROVE w[i] = Moved(w[i - 1], more[i])
  <2>1. CASE i = n + 1
    <3>1. i - 1 = n
      BY <1>1, <2>1
    <3> QED
      BY <1>1, <1>2, <1>5, <1>6, <2>1, <3>1
  <2>2. CASE i # n + 1
    <3>1. i \in 1 .. n /\ i \in 0 .. n /\ i - 1 \in 0 .. n
      BY <1>1, <2>2
    <3> QED
      BY <1>1, <1>3, <1>5, <3>1
  <2> QED
    BY <2>1, <2>2
<1>8. Averages(w, first, more, new)
  BY <1>1, <1>4, <1>5, <1>6, <1>7 DEF Averages
<1> QED
  BY <1>8 DEF more, new

LEMMA AverageStep ==
  ASSUME SkillInv, QIsMovingAverage, [Next]_vars PROVE QIsMovingAverage'
<1> DEFINE Learns(k) ==
             LET r == PairOf(job[k].id)  reward == Reward(job[k].ok) IN
             /\ q' = [q EXCEPT ![r] = Learned(q[r], reward)]
             /\ rewards' = [rewards EXCEPT ![r] = Append(rewards[r], reward)]
<1>1. ASSUME NEW k \in JobIds, Learns(k) PROVE QIsMovingAverage'
  <2> DEFINE r == PairOf(job[k].id)
             reward == Reward(job[k].ok)
  <2>1. /\ q' = [q EXCEPT ![r] = Learned(q[r], reward)]
        /\ rewards' = [rewards EXCEPT ![r] = Append(rewards[r], reward)]
    BY <1>1
  <2>2. /\ q \in [Pairs -> QValues] /\ rewards \in [Pairs -> Seq({-500, Unit})]
        /\ r \in Pairs /\ reward \in {-500, Unit}
    BY DEF SkillInv, SkillTypeOK, Jobs, Ids, PairOf, Pairs, QValues, Reward
  <2> HIDE DEF r, reward
  <2> SUFFICES ASSUME NEW p \in Pairs
               PROVE  \E v : Averages(v, Seed[p], rewards'[p], q'[p])
    BY DEF QIsMovingAverage
  <2>3. PICK v : Averages(v, Seed[p], rewards[p], q[p])
    BY DEF QIsMovingAverage
  <2>4. CASE p = r
    <3>1. q'[p] = Learned(q[p], reward) /\ rewards'[p] = Append(rewards[p], reward)
      BY <2>1, <2>2, <2>4
    <3>2. q[p] \in QValues /\ rewards[p] \in Seq({-500, Unit})
      BY <2>2
    <3> DEFINE given == rewards[p]
               old == q[p]
    <3> HIDE DEF given, old
    <3>3. \E w : Averages(w, Seed[p], Append(given, reward), Learned(old, reward))
      <4>1. given \in Seq({-500, Unit}) /\ old \in QValues /\ reward \in {-500, Unit}
        BY <2>2, <3>2 DEF given, old
      <4>2. Averages(v, Seed[p], given, old)
        BY <2>3 DEF given, old
      <4> QED
        BY <4>1, <4>2, AverageExtends
    <3> QED
      BY <3>1, <3>3, Zenon DEF given, old
  <2>5. CASE p # r
    <3>1. q'[p] = q[p] /\ rewards'[p] = rewards[p]
      BY <2>1, <2>2, <2>5
    <3> QED
      BY <2>3, <3>1
  <2> QED
    BY <2>4, <2>5
<1>2. CASE UNCHANGED << q, rewards >>
  BY <1>2 DEF QIsMovingAverage
<1>3. (\E k \in JobIds : Learns(k)) \/ UNCHANGED << q, rewards >>
  <2> USE DEF tables, history
  <2>1. CASE \E k \in JobIds : UpdateQValue(k)
    BY <2>1 DEF UpdateQValue
  <2>2. CASE CacheHit \/ Answered \/ Fallback
    <3>1. ASSUME NEW id, NEW conf, ExecuteAndVerify(id, conf)
          PROVE  UNCHANGED << q, rewards >>
      BY <3>1 DEF ExecuteAndVerify
    <3>2. CASE CacheHit
      BY <3>1, <3>2 DEF CacheHit
    <3>3. CASE Answered
      BY <3>1, <3>3 DEF Answered
    <3>4. CASE Fallback
      BY <3>1, <3>4 DEF Fallback
    <3> QED
      BY <2>2, <3>2, <3>3, <3>4
  <2>3. CASE CacheMiss \/ Gated \/ Close \/ ProcessRestarts \/ UNCHANGED vars
    BY <2>3 DEF CacheMiss, Gated, Close, ProcessRestarts, vars
  <2>4. CASE \/ \E a \in Anomalies : Recommend(a)
             \/ \E k \in ChaosCalls, p \in Injected : InjectChaos(k, p)
             \/ \E k \in JobIds : Judge(k) \/ SaveOrUpdateSkill(k)
    BY <2>4 DEF Recommend, InjectChaos, Judge, SaveOrUpdateSkill
  <2> QED
    BY <2>1, <2>2, <2>3, <2>4 DEF Next
<1> QED
  BY <1>1, <1>2, <1>3

\* A recursive definition that has a solution has no other: at the first
\* place where two differ they cannot differ.
LEMMA AverageIsTheLast ==
  ASSUME NEW first, NEW given \in Seq({-500, Unit}), NEW final, NEW v,
         Averages(v, first, given, final)
  PROVE  Average(first, given) = final
<1> DEFINE n == Len(given)
           Solves(f) == f = [i \in 0 .. n |->
                               IF i = 0 THEN first ELSE Moved(f[i - 1], given[i])]
           mean == CHOOSE f : Solves(f)
<1>1. Average(first, given) = mean[n]
  BY DEF Average
<1>2. n \in Nat
  OBVIOUS
<1>3. /\ v \in [0 .. n -> QValues] /\ v[0] = first /\ v[n] = final
      /\ \A i \in 1 .. n : v[i] = Moved(v[i - 1], given[i])
  BY DEF Averages
<1> HIDE DEF n
<1>4. Solves(v)
  BY <1>2, <1>3
<1>5. Solves(mean)
  <2> HIDE DEF Solves
  <2> QED
    BY <1>4
<1> HIDE DEF mean
<1>6. /\ mean[0] = first
      /\ \A i \in 1 .. n : mean[i] = Moved(mean[i - 1], given[i])
  <2>1. \A i \in 0 .. n : mean[i] = IF i = 0 THEN first ELSE Moved(mean[i - 1], given[i])
    BY <1>5
  <2> HIDE DEF Solves
  <2> QED
    BY <1>2, <2>1
<1> DEFINE differ == {i \in 0 .. n : mean[i] # v[i]}
<1>7. differ = {}
  <2> SUFFICES ASSUME differ # {} PROVE FALSE
    OBVIOUS
  <2>1. differ \subseteq Nat
    BY <1>2
  <2>2. PICK i \in differ : \A j \in differ : ~ (<< j, i >> \in OpToRel(<, Nat))
    <3> HIDE DEF differ
    <3> QED
      BY <2>1, WFMin, NatLessThanWellFounded
  <2>3. \A j \in differ : ~ (j < i)
    BY <2>1, <2>2 DEF OpToRel
  <2>4. i \in 0 .. n /\ mean[i] # v[i]
    OBVIOUS
  <2>5. i # 0
    BY <1>3, <1>6, <2>4
  <2>6. i \in 1 .. n /\ i - 1 \in 0 .. n /\ i - 1 < i
    BY <1>2, <2>4, <2>5
  <2>7. mean[i - 1] = v[i - 1]
    BY <2>3, <2>6
  <2> QED
    BY <1>3, <1>6, <2>4, <2>6, <2>7
<1>8. mean[n] = v[n]
  BY <1>2, <1>7
<1> QED
  BY <1>1, <1>3, <1>8

\* store.go:590: no reward that was written is lost and none overwrites another,
\* however the verifications overlap, fail or are cut off: every Q-value is the moving average
\* of all its rewards in their order, for any number of them.
THEOREM OutcomesAreAveraged == Spec => []QLearnsEveryOutcome
<1>1. Init => QIsMovingAverage
  <2> SUFFICES ASSUME Init, NEW p \in Pairs
               PROVE  \E v : Averages(v, Seed[p], rewards[p], q[p])
    BY DEF QIsMovingAverage
  <2> DEFINE v == [i \in 0 .. 0 |-> Seed[p]]
  <2>1. rewards[p] = << >> /\ q[p] = Seed[p]
    BY DEF Init
  <2>2. Seed[p] \in QValues
    BY LearningAssumption DEF Pairs, QValues, NoQ, Unit
  <2>3. Averages(v, Seed[p], << >>, Seed[p])
    BY <2>2 DEF Averages
  <2> QED
    BY <2>1, <2>3
<1>2. SkillInv /\ QIsMovingAverage /\ [Next]_vars => QIsMovingAverage'
  BY AverageStep
<1>3. SkillInv /\ QIsMovingAverage => QLearnsEveryOutcome
  <2> SUFFICES ASSUME SkillInv, QIsMovingAverage, NEW p \in Pairs
               PROVE  q[p] = Average(Seed[p], rewards[p])
    BY DEF QLearnsEveryOutcome
  <2>1. rewards[p] \in Seq({-500, Unit})
    BY DEF SkillInv, SkillTypeOK
  <2>2. PICK v : Averages(v, Seed[p], rewards[p], q[p])
    BY DEF QIsMovingAverage
  <2> QED
    BY <2>1, <2>2, AverageIsTheLast, Zenon
<1> QED
  BY SkillInvariance, <1>1, <1>2, <1>3, PTL DEF Spec
===============================================================================
