--------------------------------- MODULE CloudAI ---------------------------------
(***************************************************************************)
(* The client of the cloud AI (ai/ai_client.go) and its circuit breaker    *)
(* (ai/circuit_breaker.go).  The main loop and the Telegram listener share *)
(* one client and call it concurrently: a call is charged to the daily     *)
(* budget, then asks the breaker, then takes a token of the rate limiter,  *)
(* sends its request up to three times, and reports to the breaker.  The   *)
(* client's mutex and the breaker's are held for one of these steps at a   *)
(* time, never across the request.                                         *)
(*                                                                         *)
(* The cost of a call is the constant 0.0001 that every caller passes, so  *)
(* the cost is a number of calls.  `failCount' is only ever compared with  *)
(* three and is counted up to that.  An air-gapped client, which refuses   *)
(* every call, is left out.                                                *)
(***************************************************************************)
EXTENDS Integers, FiniteSets

CONSTANTS
  Callers,     (* goroutines that call AnalyzeAnomaly[WithContext]         *)
  DailyLimit,  (* APIBudget.DailyLimit: 1000 in the code                   *)
  CostLimit,   (* APIBudget.CostLimit in calls: 3.0 / 0.0001 in the code   *)
  MaxTokens,   (* maxTokens: 5 in the code                                 *)
  Attempts     (* HTTP requests that one call may send: 3 in the code      *)

ASSUME CloudAssumption ==
  /\ IsFiniteSet(Callers)
  /\ DailyLimit \in Nat \ {0}
  /\ CostLimit \in Nat \ {0}
  /\ MaxTokens \in Nat \ {0}
  /\ Attempts \in Nat \ {0}

Trip == 3

VARIABLES
  state,      (* CircuitBreaker.state                                      *)
  failCount,  (* CircuitBreaker.failCount, up to Trip                      *)
  timedOut,   (* openTimeout has passed since lastFailAt                   *)
  spent,      (* APIBudget.CurrentCount                                    *)
  dayOver,    (* 24 hours have passed since LastResetTime                  *)
  tokens,     (* AIClient.tokens, whole ones                               *)
  call,       (* state of each caller                                      *)
  healthy,    (* the service answers, and answers in the wanted format     *)
  sent,       (* history: HTTP requests sent since the budget was reset    *)
  carried     (* history: calls under way when it was reset                *)

breakerVars == << state, failCount, timedOut >>
budgetVars  == << spent, dayOver, sent, carried >>
cloudVars   == << breakerVars, budgetVars, tokens, call, healthy >>

Idle         == [pc |-> "idle", left |-> 0]
Charged      == [pc |-> "charged", left |-> 0]
Entered      == [pc |-> "entered", left |-> 0]
Sending(n)   == [pc |-> "sending", left |-> n]
Ended(pc)    == [pc |-> pc, left |-> 0]
Calls == {Idle, Charged, Entered, Ended("succeeded"), Ended("failed")}
         \cup {Sending(n) : n \in 1 .. Attempts}

UnderWay == {c \in Callers : call[c].pc # "idle"}

Goes(c, from, to) == call[c].pc = from /\ call' = [call EXCEPT ![c] = to]

-------------------------------------------------------------------------------
(* One call.                                                               *)

\* Seeded fault: the reset of the day also forgives the call's own charge.
CheckBudgetUncharged(c) ==
  /\ Goes(c, "idle", Charged)
  /\ IF dayOver
     THEN spent' = 0 /\ sent' = 0 /\ carried' = Cardinality(UnderWay)
     ELSE /\ spent < DailyLimit /\ spent + 1 <= CostLimit
          /\ spent' = spent + 1
          /\ UNCHANGED << sent, carried >>
  /\ dayOver' = FALSE
  /\ UNCHANGED << breakerVars, tokens, healthy >>

\* CheckBudgetBeforeCall: a new day resets the budget; a call beyond one of
\* the limits is refused; the others are charged before the breaker is asked.
CheckBudgetBeforeCall(c) ==
  /\ Goes(c, "idle", Charged)
  /\ LET base == IF dayOver THEN 0 ELSE spent
     IN /\ base < DailyLimit /\ base + 1 <= CostLimit
        /\ spent' = base + 1
  /\ dayOver' = FALSE
  /\ sent' = IF dayOver THEN 0 ELSE sent
  /\ carried' = IF dayOver THEN Cardinality(UnderWay) ELSE carried
  /\ UNCHANGED << breakerVars, tokens, healthy >>

\* The first half of CircuitBreaker.Call.
Refused(c) ==
  /\ state = "OPEN" /\ ~timedOut
  /\ Goes(c, "charged", Idle)
  /\ UNCHANGED << breakerVars, budgetVars, tokens, healthy >>

\* Seeded fault: an open breaker that lets a call through forgets the
\* failures that opened it.
EnterForgetting(c) ==
  /\ state = "OPEN" => timedOut
  /\ state' = IF state = "OPEN" THEN "HALF_OPEN" ELSE state
  /\ failCount' = IF state = "OPEN" THEN 0 ELSE failCount
  /\ Goes(c, "charged", Entered)
  /\ UNCHANGED << timedOut, budgetVars, tokens, healthy >>

Enter(c) ==
  /\ state = "OPEN" => timedOut
  /\ state' = IF state = "OPEN" THEN "HALF_OPEN" ELSE state
  /\ Goes(c, "charged", Entered)
  /\ UNCHANGED << failCount, timedOut, budgetVars, tokens, healthy >>

\* Seeded fault: a token is taken whether or not there is one.
AllowTokenUnchecked(c) ==
  /\ tokens' = tokens - 1
  /\ Goes(c, "entered", Sending(Attempts))
  /\ UNCHANGED << breakerVars, budgetVars, healthy >>

\* allowTokenCheck: without a token the call fails before any request, and
\* so it does without an API key or when the process is about to end.
AllowTokenCheck(c) ==
  /\ \/ /\ tokens > 0
        /\ tokens' = tokens - 1
        /\ \/ Goes(c, "entered", Sending(Attempts))
           \/ ~healthy /\ Goes(c, "entered", Ended("failed"))
     \/ /\ tokens = 0
        /\ Goes(c, "entered", Ended("failed"))
        /\ UNCHANGED tokens
  /\ UNCHANGED << breakerVars, budgetVars, healthy >>

\* One HTTP request.  Any answer but 200 is retried; a body that cannot be
\* used fails the call, and so does the last attempt.
SendRequest(c) ==
  /\ call[c].pc = "sending"
  /\ sent' = sent + 1
  /\ \/ healthy /\ Goes(c, "sending", Ended("succeeded"))
     \/ ~healthy /\ Goes(c, "sending", Ended("failed"))
     \/ /\ ~healthy /\ call[c].left > 1
        /\ Goes(c, "sending", Sending(call[c].left - 1))
  /\ UNCHANGED << breakerVars, spent, dayOver, carried, tokens, healthy >>

\* Seeded fault: a success clears the count and leaves the state.
SucceedHalf(c) ==
  /\ Goes(c, "succeeded", Idle)
  /\ failCount' = 0
  /\ UNCHANGED << state, timedOut, budgetVars, tokens, healthy >>

\* The second half of CircuitBreaker.Call.
Succeed(c) ==
  /\ Goes(c, "succeeded", Idle)
  /\ failCount' = 0
  /\ state' = "CLOSED"
  /\ UNCHANGED << timedOut, budgetVars, tokens, healthy >>

Fail(c) ==
  /\ Goes(c, "failed", Idle)
  /\ failCount' = IF failCount < Trip THEN failCount + 1 ELSE Trip
  /\ timedOut' = FALSE
  /\ state' = IF failCount + 1 >= Trip THEN "OPEN" ELSE state
  /\ UNCHANGED << budgetVars, tokens, healthy >>

-------------------------------------------------------------------------------
(* Time and the service.                                                   *)

\* A token is refilled every six seconds; five minutes without a failure
\* refill them all, and make the breaker let a call through.
Refill ==
  /\ tokens < MaxTokens
  /\ tokens' = tokens + 1
  /\ UNCHANGED << breakerVars, budgetVars, call, healthy >>

OpenTimeout ==
  /\ ~timedOut
  /\ timedOut' = TRUE
  /\ tokens' = MaxTokens
  /\ UNCHANGED << state, failCount, budgetVars, call, healthy >>

DayPasses ==
  /\ ~dayOver
  /\ dayOver' = TRUE
  /\ UNCHANGED << breakerVars, spent, sent, carried, tokens, call, healthy >>

ServiceChanges ==
  /\ healthy' = ~healthy
  /\ UNCHANGED << breakerVars, budgetVars, tokens, call >>

Init ==
  /\ state = "CLOSED" /\ failCount = 0 /\ timedOut = TRUE
  /\ spent = 0 /\ dayOver = FALSE /\ sent = 0 /\ carried = 0
  /\ tokens = MaxTokens
  /\ call = [c \in Callers |-> Idle]
  /\ healthy \in BOOLEAN

\* What a call does once it is charged.
Proceed(c) ==
  \/ Refused(c) \/ Enter(c)
  \/ AllowTokenCheck(c) \/ SendRequest(c)
  \/ Succeed(c) \/ Fail(c)

Next ==
  \/ \E c \in Callers : CheckBudgetBeforeCall(c) \/ Proceed(c)
  \/ Refill \/ OpenTimeout \/ DayPasses
  \/ ServiceChanges

Spec == Init /\ [][Next]_cloudVars

\* The HTTP client and every wait have a timeout, so a call goes on; and
\* five minutes pass.
FairSpec ==
  /\ Spec
  /\ \A c \in Callers : WF_cloudVars(Proceed(c))
  /\ WF_cloudVars(OpenTimeout)

-------------------------------------------------------------------------------
(* Properties.                                                             *)

\* Types of the state: no limit of the budget is passed, and the rate limiter
\* never hands out a token that it does not have.
CloudTypeOK ==
  /\ state \in {"CLOSED", "OPEN", "HALF_OPEN"}
  /\ failCount \in 0 .. Trip
  /\ timedOut \in BOOLEAN
  /\ spent \in 0 .. DailyLimit /\ spent <= CostLimit
  /\ dayOver \in BOOLEAN
  /\ tokens \in 0 .. MaxTokens
  /\ call \in [Callers -> Calls]
  /\ healthy \in BOOLEAN
  /\ sent \in Nat /\ carried \in Nat

\* After three failures with no success since, no call is let through
\* before the timeout has passed since the last of them, however the reports
\* of calls that began before interleave with those that probe a half-open
\* breaker; and with fewer failures the breaker is closed.
TrippedIsOpen ==
  IF failCount < Trip THEN state = "CLOSED"
  ELSE state = "OPEN" \/ (state = "HALF_OPEN" /\ timedOut)

\* What leaves for the service in a day is paid for: at most three requests
\* for each call charged to that day or under way when the budget was reset,
\* although calls outlive the reset.
SentIsPaid == sent <= Attempts * (spent + carried)

\* When the service stays healthy and calls keep being charged, the breaker
\* closes: neither the rate limiter nor failures that are reported late keep
\* it open for ever.
BreakerRecovers ==
  (<>[]healthy /\ []<><<\E c \in Callers : CheckBudgetBeforeCall(c)>>_cloudVars)
    => []<>(state = "CLOSED")
===============================================================================
