------------------------------ MODULE StoreQueries -----------------------------
(***************************************************************************)
(* What skillstore/store.go computes from its tables, beside the learning  *)
(* itself (SkillLearning): how similar two states are and which known one  *)
(* is the nearest, the running means of a state's signature, which rows    *)
(* the daily maintenance deletes, and when the telemetry history is ready. *)
(* Pure operators over sets of rows; times are in seconds, values of a     *)
(* signature in its units, thresholds and confidences in hundredths.       *)
(***************************************************************************)
EXTENDS Integers, FiniteSets

-------------------------------------------------------------------------------
(* Signatures of states.                                                   *)

Sizes == {"ram", "latency", "cpu", "temp"}

Signatures == [size : [Sizes -> Nat], wan : BOOLEAN, wifi : BOOLEAN]

Squared(s, t, f) == (s.size[f] - t.size[f]) * (s.size[f] - t.size[f])

\* 450 000 times the square of ComputeStateDistance: a weight of 1.5 over a
\* scale of 10 for the memory, 1.2 over 50, 0.8 over 15, 0.6 over 10; 2.0 and
\* 1.8 for a WAN and a Wi-Fi that are down in one of the two.
Distance(s, t) ==
  6750 * Squared(s, t, "ram") + 216 * Squared(s, t, "latency")
  + 1600 * Squared(s, t, "cpu") + 2700 * Squared(s, t, "temp")
  + (IF s.wan # t.wan THEN 900000 ELSE 0)
  + (IF s.wifi # t.wifi THEN 810000 ELSE 0)

\* SetInterpolationParams, GetInterpolationParams.
DefaultThreshold == 250
Threshold(wanted) == IF wanted \in 100 .. 500 THEN wanted ELSE DefaultThreshold

Similar(s, t, threshold) == Distance(s, t) <= 45 * (threshold * threshold)

\* findNearestStateLocked; of several at the same distance, the first in the
\* order of the table counts, which is anybody's guess.
Nearest(known, s) ==
  {n \in DOMAIN known : \A m \in DOMAIN known :
                          Distance(s, known[n]) <= Distance(s, known[m])}

FindNearestState(known, s, wanted) ==
  {n \in Nearest(known, s) : Similar(s, known[n], Threshold(wanted))}

\* The signatures every database starts with.
Signature(ram, latency, cpu, temp, wan, wifi) ==
  [size |-> [f \in Sizes |-> IF f = "ram" THEN ram ELSE IF f = "latency" THEN latency
                             ELSE IF f = "cpu" THEN cpu ELSE temp],
   wan |-> wan, wifi |-> wifi]

Seeds ==
  [MEMORY_EXHAUSTION          |-> Signature(90, 15, 25, 60, FALSE, FALSE),
   WAN_DROP                   |-> Signature(45, 999, 15, 55, TRUE, FALSE),
   WIFI_FAILURE               |-> Signature(50, 25, 20, 58, FALSE, TRUE),
   LATENCY_SPIKE              |-> Signature(55, 180, 30, 62, FALSE, FALSE),
   BUFFERBLOAT_SPIKE          |-> Signature(60, 220, 65, 65, FALSE, FALSE),
   REPEATER_SIGNAL_WEAK       |-> Signature(48, 85, 18, 56, FALSE, FALSE),
   REPEATER_CHANNEL_CONGESTED |-> Signature(52, 110, 35, 59, FALSE, FALSE)]

\* RecordStateSignature on a row of `count' samples: running means, of which
\* the last sample is a 500th at least.
Weight(count) == IF count < 499 THEN count ELSE 499

Mean(old, count, new) == (old * Weight(count) + new) \div (Weight(count) + 1)

Recorded(old, count, new) ==
  [new EXCEPT !.size = [f \in Sizes |-> Mean(old.size[f], count, new.size[f])]]

CountAfter(count) == IF count + 1 < 500 THEN count + 1 ELSE 500

-------------------------------------------------------------------------------
(* The daily maintenance.                                                  *)

Day == 24 * 60 * 60

MaxSkills == 1000

\* PruneSkillsPeriodic, of rows with a confidence and two times.
Skills == [id : Nat, conf : 0 .. 100, used : Nat, created : Nat]

PruneDue(rows, sinceLast) ==
  sinceLast >= Day \/ Cardinality(rows) >= MaxSkills

Forgotten(rows, now) ==
  {r \in rows : r.conf < 5 /\ r.used < now - 30 * Day /\ r.created < now - 90 * Day}

\* The hundred lowest ones of those that are left; ties are broken anyhow.
Lowest(rows, cut) ==
  /\ cut \subseteq rows
  /\ Cardinality(cut) = IF Cardinality(rows) < 100 THEN Cardinality(rows) ELSE 100
  /\ \A r \in cut, s \in rows \ cut : r.conf <= s.conf

PruneSkillsPeriodic(rows, now, sinceLast, left) ==
  LET kept == rows \ Forgotten(rows, now)
  IN IF ~PruneDue(rows, sinceLast) THEN left = rows
     ELSE IF Cardinality(rows) < MaxSkills THEN left = kept
     ELSE \E cut \in SUBSET kept : Lowest(kept, cut) /\ left = kept \ cut

\* The history is a set of timestamps.
RetentionDays(wanted) == IF wanted <= 0 THEN 30 ELSE wanted

PruneTelemetryHistory(history, now, wanted) ==
  {t \in history : t >= now - RetentionDays(wanted) * Day}

\* The alert of runTelemetryMaintenance, while its latch is not set.
ReadinessDue(history) ==
  \E oldest, newest \in history :
    /\ \A t \in history : oldest <= t /\ t <= newest
    /\ newest - oldest >= 14 * Day

\* A prune that fails is only logged, and the history is looked at as it is.
Maintained(history, now, wanted, pruned) ==
  ReadinessDue(IF pruned THEN PruneTelemetryHistory(history, now, wanted)
               ELSE history)
===============================================================================
