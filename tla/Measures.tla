------------------------------- MODULE Measures --------------------------------
(***************************************************************************)
(* What the main loop computes from a sample before it decides anything:   *)
(* the rates, the traffic class, the latency score, the shaper rates of    *)
(* telemetry/telemetry.go, the lines of syslog that parser/parser.go takes *)
(* for an anomaly, and the choice of the anomaly in cmd/main.go.  Pure     *)
(* operators, over integers: rates in tenths of Mbps unless said           *)
(* otherwise, thresholds in hundredths as in Intents.                      *)
(***************************************************************************)
EXTENDS Intents

CONSTANT Word   (* 2^64: byte counters are unsigned words                  *)

ASSUME WordAssumption == Word \in Nat \ {0}

-------------------------------------------------------------------------------
(* The interfaces and their counters.                                      *)

\* readMultiWANStats: `up' says of each WAN interface the kernel lists
\* whether it is up.  A router that lists none is online.
WANStatus(up) ==
  CASE Len(up) = 0                       -> "up"
    [] \A i \in DOMAIN up : up[i]        -> "Active"
    [] ~(\E i \in DOMAIN up : up[i])     -> "Offline"
    [] OTHER                             -> "Partial"

\* The bytes received and sent since the last sample.  Only the received
\* ones are compared with the last sample's; the subtraction wraps.
Transferred(last, rx, tx) ==
  IF last.rx > 0 /\ rx >= last.rx
  THEN [down |-> rx - last.rx, up |-> (tx - last.tx) % Word]
  ELSE [down |-> 0, up |-> 0]

\* A probe that fails, and an offline WAN, report a latency of zero.
Latency(online, answered, milliseconds) ==
  IF online /\ answered THEN milliseconds ELSE 0

\* readRAMUsage, of what /proc/meminfo says.
RAMUsage(total, available) ==
  IF total = 0 THEN 0
  ELSE LET used == IF available > total THEN 0 ELSE total - available
       IN IF 100 * used > 100 * total THEN 100 ELSE (100 * used) \div total

\* ApplyAdaptiveThermalFanCurve.
FanPWM(celsius) ==
  CASE celsius < 65 -> 0
    [] celsius >= 65 /\ celsius < 72 -> 85
    [] celsius >= 72 /\ celsius < 80 -> 160
    [] OTHER -> 255

-------------------------------------------------------------------------------
(* The traffic classifier of CollectMetrics: two counters.                 *)

Dec(n) == IF n > 0 THEN n - 1 ELSE n

Classified(counts, rate) ==
  CASE rate >= 250              -> [bulk   |-> counts.bulk + 1,
                                    stream |-> Dec(counts.stream)]
    [] rate >= 15 /\ rate < 250 -> [bulk   |-> Dec(counts.bulk),
                                    stream |-> counts.stream + 1]
    [] rate < 5                 -> [bulk   |-> Dec(counts.bulk),
                                    stream |-> Dec(counts.stream)]
    [] OTHER                    -> counts

IsBulkDownloadActive(counts) == counts.bulk >= 2
IsStreamingActive(counts)    == counts.bulk < 2 /\ counts.stream >= 3

-------------------------------------------------------------------------------
(* UpdateEWMALatency with its weight of 0.2.  For a latency that is `rise' *)
(* above the running mean and a running variance of `variance', the score  *)
(* is above T / 100.  The code divides what is left of the rise by the     *)
(* root of the new variance: 4/5 rise > T/100 sqrt(4/5 (variance +         *)
(* rise^2 / 5)); this is the inequality of the squares, without fractions. *)
ScoreExceeds(T, variance, rise) ==
  /\ rise > 0
  /\ 40000 * (rise * rise) > (T * T) * (5 * variance + rise * rise)

-------------------------------------------------------------------------------
(* CalculateAdaptiveSQMRates, one direction; last and peak in Mbps, the    *)
(* shaper's rate in Kbps.                                                  *)

Larger(a, b) == IF a >= b THEN a ELSE b

\* CollectMetrics remembers the highest rate ...
PeakAfter(peak, last) == Larger(peak, last)

\* ... and a latency spike makes it forget what is no longer reached.
Recalibrated(peak, last, spike) ==
  IF spike /\ last > 50 /\ 100 * last < 75 * peak THEN last ELSE peak

ShaperRate(peak, spike) ==
  LET target == Larger(200, peak)
      wanted == IF spike THEN 680 * target ELSE 800 * target
      floor  == Larger(50000, 500 * peak)
  IN IF wanted < floor THEN floor ELSE IF wanted > 900000 THEN 900000 ELSE wanted

-------------------------------------------------------------------------------
(* The lines of syslog.  The log is a stream of bytes; a line has its place *)
(* in it and, for each pattern of the parser, the place where its first    *)
(* match ends (0: it has none), when the characters that SanitizeLog takes *)
(* out have become underscores.                                            *)

Patterns == {"WAN_DROP", "WIFI_FAILURE", "MEMORY_EXHAUSTION"}
LogLines == 15         \* of getSystemLogSample
SampleBytes == 4096    \* of SanitizeLog
MaxLinesPerSec == 100  \* of NewParser

Lines == [from : Nat, to : Nat, at : [Patterns -> Nat]]

IsLog(log) ==
  /\ log \in Seq(Lines)
  /\ \A i \in DOMAIN log : i > 1 => log[i].from = log[i - 1].to
  /\ \A i \in DOMAIN log : \A p \in Patterns :
        log[i].at[p] # 0 => log[i].from < log[i].at[p] /\ log[i].at[p] <= log[i].to

\* The sample is the end of the log.
First(log)   == IF Len(log) > LogLines THEN Len(log) - LogLines + 1 ELSE 1
Sampled(log) == First(log) .. Len(log)

\* The loop passes the sample, before it is split into lines, to SanitizeLog,
\* which keeps its first bytes: what is cut off is the newest.
Kept(log) == log[First(log)].from + SampleBytes

Matches(line, p, kept) == line.at[p] # 0 /\ line.at[p] <= kept

\* ParseLine tries the patterns in this order.
ParseLine(line, kept) ==
  IF Matches(line, "WAN_DROP", kept) THEN "WAN_DROP"
  ELSE IF Matches(line, "WIFI_FAILURE", kept) THEN "WIFI_FAILURE"
  ELSE IF Matches(line, "MEMORY_EXHAUSTION", kept) THEN "MEMORY_EXHAUSTION"
  ELSE "none"

\* It lets a hundred lines pass in a second; `used' of them, of this sample's
\* second, are spent already, by /health as well.  (That a second ends within
\* a sample, which lets more lines pass, is left out.)
Passed(log, used) == {i \in Sampled(log) : used + (i - First(log)) < MaxLinesPerSec}

\* The first line that matches counts.
Finds(log, used, i) ==
  /\ i \in Passed(log, used)
  /\ ParseLine(log[i], Kept(log)) # "none"
  /\ \A j \in Passed(log, used) : j < i => ParseLine(log[j], Kept(log)) = "none"

LogAnomaly(log, used) ==
  IF \E i \in DOMAIN log : Finds(log, used, i)
  THEN ParseLine(log[CHOOSE i \in DOMAIN log : Finds(log, used, i)], Kept(log))
  ELSE "none"

\* The warning about a line quotes what was kept of it, and procd sends what
\* the agent prints to the same syslog, wherever that puts it.  (What the
\* logger redacts, addresses and secrets, is taken not to be part of a match.)
IsEcho(echo, line, kept) ==
  \A p \in Patterns : echo.at[p] # 0 <=> Matches(line, p, kept)

-------------------------------------------------------------------------------
\* The anomaly a tick finds in a sample m.  (/health leaves the repeater out.)
Anomaly(m, effective, log, used) ==
  IF m.wan = "Offline" THEN "WAN_DROP"
  ELSE IF LogAnomaly(log, used) # "none" THEN LogAnomaly(log, used)
  ELSE IF m.ram > effective.ram THEN "MEMORY_EXHAUSTION"
  ELSE IF /\ ScoreExceeds(effective.zscore, m.variance, m.rise)
          /\ m.latency > effective.latency
       THEN "BUFFERBLOAT_SPIKE"
  ELSE IF m.signal < -75 THEN "REPEATER_SIGNAL_WEAK"
  ELSE "none"
===============================================================================
