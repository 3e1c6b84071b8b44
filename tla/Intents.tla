-------------------------------- MODULE Intents --------------------------------
(***************************************************************************)
(* The intents of config/intents.go: time windows that override the        *)
(* thresholds of the anomaly detection.  Pure operators: the file is read  *)
(* again at every tick of the main loop, and nothing is kept of it.        *)
(*                                                                         *)
(* A threshold is an integer in hundredths of its unit.  A pointer that is *)
(* nil and one to zero are both 0 here: the code treats them alike.        *)
(***************************************************************************)
EXTENDS Integers, Sequences

MinutesPerDay == 24 * 60
Minutes       == 0 .. MinutesPerDay - 1

Fields == {"ram", "cpu", "latency", "zscore"}

\* "HH:MM" is the sequence of its parts between colons; a part that is no
\* number is NotANumber, a text that is no time of day is Unparsable.
NotANumber == -1
Unparsable == -1
Texts == Seq(Int)

\* An intent as it stands in the file.
IntentType == [start : Texts, end : Texts, over : [Fields -> Int]]

\* The intents file: absent, not to be read or not to be parsed, or a list.
IntentFiles == [readable : BOOLEAN, intents : Seq(IntentType)]

-------------------------------------------------------------------------------
\* validateAndSanitizeIntents, on one intent.
Sanitized(intent) ==
  [intent EXCEPT !.over = [f \in Fields |-> IF @[f] <= 0 THEN 0 ELSE @[f]]]

\* LoadIntents: whatever is wrong with the file, the result is no intents.
LoadIntents(file) ==
  IF file.readable
  THEN [i \in DOMAIN file.intents |-> Sanitized(file.intents[i])]
  ELSE << >>

ParseTimeOfDay(text) ==
  IF Len(text) = 2 /\ text[1] \in 0 .. 23 /\ text[2] \in 0 .. 59
  THEN 60 * text[1] + text[2]
  ELSE Unparsable

\* [start, end), over midnight when it ends before it starts.
IsTimeInWindow(now, start, end) ==
  IF start <= end THEN start <= now /\ now < end
                  ELSE start <= now \/ now < end

Applies(intent, now) ==
  LET start == ParseTimeOfDay(intent.start)
      end   == ParseTimeOfDay(intent.end)
  IN /\ start # Unparsable
     /\ end # Unparsable
     /\ IsTimeInWindow(now, start, end)

\* The loop over the intents stops at the first that applies.
IsActive(intents, i, now) ==
  /\ Applies(intents[i], now)
  /\ \A j \in 1 .. i - 1 : ~Applies(intents[j], now)

\* The built-in thresholds, which stand for a configured one that is not
\* positive.
Defaults == [ram |-> 9500, cpu |-> 150, latency |-> 10000, zscore |-> 250]

Base(thresholds) ==
  [f \in Fields |-> IF thresholds[f] > 0 THEN thresholds[f] ELSE Defaults[f]]

ResolveEffectiveThresholds(thresholds, intents, now) ==
  IF \E i \in DOMAIN intents : IsActive(intents, i, now)
  THEN LET active == intents[CHOOSE i \in DOMAIN intents : IsActive(intents, i, now)]
       IN [f \in Fields |-> IF active.over[f] > 0 THEN active.over[f]
                                                  ELSE Base(thresholds)[f]]
  ELSE Base(thresholds)

\* GetEffectiveThresholds, at each tick and for each /health command.
GetEffectiveThresholds(thresholds, file, now) ==
  ResolveEffectiveThresholds(thresholds, LoadIntents(file), now)
===============================================================================
