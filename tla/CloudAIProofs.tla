------------------------------ MODULE CloudAIProofs ------------------------------
(***************************************************************************)
(* The circuit breaker and the budget hold for any number of callers, any  *)
(* budget and any number of tokens.  The breaker's three variables change  *)
(* in three steps of a call and by the passing of time only, and its       *)
(* property is inductive with their types.  The budget's is not: a request *)
(* that will be sent must be counted with those that were.                 *)
(***************************************************************************)
EXTENDS CloudAI, FiniteSetTheorems, TLAPS

-------------------------------------------------------------------------------
(* The circuit breaker.                                                    *)

BreakerInv ==
  /\ failCount \in 0 .. Trip
  /\ timedOut \in BOOLEAN
  /\ TrippedIsOpen

\* The steps of a call, one by one.
LEMMA ProceedStep ==
  ASSUME BreakerInv, NEW c \in Callers, Proceed(c) PROVE BreakerInv'
<1> USE DEF BreakerInv, TrippedIsOpen, Trip, breakerVars
<1>1. CASE Refused(c)
  BY <1>1 DEF Refused
<1>2. CASE Enter(c)
  BY <1>2 DEF Enter
<1>3. CASE AllowTokenCheck(c)
  BY <1>3 DEF AllowTokenCheck
<1>4. CASE SendRequest(c)
  BY <1>4 DEF SendRequest
<1>5. CASE Succeed(c)
  BY <1>5 DEF Succeed
<1>6. CASE Fail(c)
  <2>1. /\ timedOut' = FALSE
        /\ failCount' = IF failCount < 3 THEN failCount + 1 ELSE 3
        /\ state' = IF failCount + 1 >= 3 THEN "OPEN" ELSE state
    BY <1>6 DEF Fail
  <2>2. failCount \in 0 .. 3
    OBVIOUS
  <2>3. failCount' \in 0 .. 3
    BY <2>1, <2>2
  <2>4. failCount' \in 0 .. 3 /\ timedOut' \in BOOLEAN
    BY <2>1, <2>3
  <2>5. CASE failCount + 1 >= 3
    <3>1. failCount' = 3 /\ state' = "OPEN"
      BY <2>1, <2>5
    <3> QED
      BY <2>4, <3>1
  <2>6. CASE failCount + 1 < 3
    <3>1. failCount < 3 /\ state = "CLOSED"
      BY <2>6
    <3>2. failCount' = failCount + 1 /\ state' = "CLOSED"
      BY <2>1, <2>6, <3>1
    <3> QED
      BY <2>4, <2>6, <3>2
  <2> QED
    BY <2>5, <2>6
<1> QED
  BY <1>1, <1>2, <1>3, <1>4, <1>5, <1>6 DEF Proceed

\* Every step of the system.
LEMMA BreakerStep == BreakerInv /\ [Next]_cloudVars => BreakerInv'
<1> SUFFICES ASSUME BreakerInv, [Next]_cloudVars PROVE BreakerInv'
  OBVIOUS
<1>1. ASSUME NEW c \in Callers, CheckBudgetBeforeCall(c) PROVE BreakerInv'
  BY <1>1 DEF CheckBudgetBeforeCall, BreakerInv, TrippedIsOpen, breakerVars
<1>2. ASSUME NEW c \in Callers, Proceed(c) PROVE BreakerInv'
  BY <1>2, ProceedStep
<1>3. CASE Refill \/ DayPasses \/ ServiceChanges
  BY <1>3 DEF Refill, DayPasses, ServiceChanges, BreakerInv, TrippedIsOpen,
              breakerVars
<1>4. CASE OpenTimeout
  BY <1>4 DEF OpenTimeout, BreakerInv, TrippedIsOpen
<1>5. CASE UNCHANGED cloudVars
  BY <1>5 DEF cloudVars, breakerVars, BreakerInv, TrippedIsOpen
<1> QED
  BY <1>1, <1>2, <1>3, <1>4, <1>5 DEF Next

\* Three failures without a success keep the breaker shut until its timeout,
\* and it is closed otherwise, however concurrent calls interleave.
THEOREM BreakerHolds == Spec => []TrippedIsOpen
<1>1. Init => BreakerInv
  BY DEF Init, BreakerInv, TrippedIsOpen, Trip
<1>2. BreakerInv => TrippedIsOpen
  BY DEF BreakerInv
<1> QED
  BY <1>1, <1>2, BreakerStep, PTL DEF Spec

-------------------------------------------------------------------------------
(* The budget and the rate limiter.                                        *)

\* Requests that a call may still send; each of them, and all of them.
Left(c) == IF call[c].pc \in {"charged", "entered"} THEN Attempts ELSE call[c].left

Pending == {x \in Callers \X (1 .. Attempts) : x[2] <= Left(x[1])}

\* Requests that were sent and those that may follow are paid for.
PaidInv == CloudTypeOK /\ sent + Cardinality(Pending) <= Attempts * (spent + carried)

LEMMA CallFields ==
  ASSUME NEW k \in Calls
  PROVE  /\ k.left \in 0 .. Attempts
         /\ k.pc \in {"idle", "charged", "entered", "sending", "succeeded", "failed"}
         /\ k.pc # "sending" => k.left = 0
  BY CloudAssumption DEF Calls, Idle, Charged, Entered, Sending, Ended

LEMMA PendingFinite == IsFiniteSet(Pending) /\ Cardinality(Pending) \in Nat
<1>1. IsFiniteSet(1 .. Attempts)
  BY FS_Interval, CloudAssumption
<1>2. IsFiniteSet(Callers \X (1 .. Attempts))
  BY <1>1, FS_Product, CloudAssumption
<1>3. Pending \subseteq Callers \X (1 .. Attempts)
  BY DEF Pending
<1>4. IsFiniteSet(Pending)
  BY <1>2, <1>3, FS_Subset
<1> QED
  BY <1>4, FS_CardinalityType

\* A step of a call leaves the calls well-formed, and the others alone.
LEMMA GoesOn ==
  ASSUME CloudTypeOK, NEW c \in Callers, NEW from, NEW to \in Calls, Goes(c, from, to)
  PROVE  /\ call' \in [Callers -> Calls]
         /\ call[c].pc = from /\ call'[c] = to
         /\ \A d \in Callers \ {c} : call'[d] = call[d]
  BY DEF Goes, CloudTypeOK

\* The types, step by step.
LEMMA ChargeTypes ==
  ASSUME CloudTypeOK, NEW c \in Callers, CheckBudgetBeforeCall(c) PROVE CloudTypeOK'
<1> DEFINE base == IF dayOver THEN 0 ELSE spent
<1>1. call' \in [Callers -> Calls]
  BY GoesOn DEF CheckBudgetBeforeCall, Calls
<1>2. base \in Nat /\ base < DailyLimit /\ base + 1 <= CostLimit /\ spent' = base + 1
  BY CloudAssumption DEF CheckBudgetBeforeCall, CloudTypeOK
<1>3. spent' \in 0 .. DailyLimit /\ spent' <= CostLimit
  BY <1>2, CloudAssumption
<1>4. Cardinality(UnderWay) \in Nat
  <2>1. UnderWay \in SUBSET Callers
    BY DEF UnderWay
  <2> QED
    BY <2>1, FS_Subset, FS_CardinalityType, CloudAssumption
<1>5. sent' \in Nat /\ carried' \in Nat /\ dayOver' \in BOOLEAN
  BY <1>4 DEF CheckBudgetBeforeCall, CloudTypeOK
<1>6. UNCHANGED << state, failCount, timedOut, tokens, healthy >>
  BY DEF CheckBudgetBeforeCall, breakerVars
<1> QED
  BY <1>1, <1>3, <1>5, <1>6 DEF CloudTypeOK

LEMMA ProceedTypes ==
  ASSUME CloudTypeOK, NEW c \in Callers, Proceed(c) PROVE CloudTypeOK'
<1> USE DEF CloudTypeOK, breakerVars, budgetVars
<1>1. CASE Refused(c)
  <2>1. call' \in [Callers -> Calls]
    BY <1>1, GoesOn DEF Refused, Calls
  <2> QED
    BY <1>1, <2>1 DEF Refused
<1>2. CASE Enter(c)
  <2>1. call' \in [Callers -> Calls]
    BY <1>2, GoesOn DEF Enter, Calls
  <2> QED
    BY <1>2, <2>1 DEF Enter
<1>3. CASE AllowTokenCheck(c)
  <2>1. Sending(Attempts) \in Calls /\ Ended("failed") \in Calls
    BY CloudAssumption DEF Calls
  <2>2. call' \in [Callers -> Calls]
    BY <1>3, <2>1, GoesOn DEF AllowTokenCheck
  <2>3. tokens' \in 0 .. MaxTokens
    BY <1>3, CloudAssumption DEF AllowTokenCheck
  <2> QED
    BY <1>3, <2>2, <2>3 DEF AllowTokenCheck
<1>4. CASE SendRequest(c)
  <2>1. call[c] \in Calls
    OBVIOUS
  <2>2. call[c].left > 1 => Sending(call[c].left - 1) \in Calls
    BY <2>1, CallFields, CloudAssumption DEF Calls
  <2>3. Ended("succeeded") \in Calls /\ Ended("failed") \in Calls
    BY DEF Calls
  <2>4. call' \in [Callers -> Calls]
    BY <1>4, <2>2, <2>3, GoesOn DEF SendRequest
  <2> QED
    BY <1>4, <2>4 DEF SendRequest
<1>5. CASE Succeed(c)
  <2>1. call' \in [Callers -> Calls]
    BY <1>5, GoesOn DEF Succeed, Calls
  <2> QED
    BY <1>5, <2>1 DEF Succeed, Trip
<1>6. CASE Fail(c)
  <2>1. call' \in [Callers -> Calls]
    BY <1>6, GoesOn DEF Fail, Calls
  <2>2. failCount' \in 0 .. Trip /\ state' \in {"CLOSED", "OPEN", "HALF_OPEN"}
    BY <1>6 DEF Fail, Trip
  <2> QED
    BY <1>6, <2>1, <2>2 DEF Fail
<1> QED
  BY <1>1, <1>2, <1>3, <1>4, <1>5, <1>6 DEF Proceed

LEMMA CloudTypesStep == CloudTypeOK /\ [Next]_cloudVars => CloudTypeOK'
<1> SUFFICES ASSUME CloudTypeOK, [Next]_cloudVars PROVE CloudTypeOK'
  OBVIOUS
<1>1. CASE \E c \in Callers : CheckBudgetBeforeCall(c) \/ Proceed(c)
  BY <1>1, ChargeTypes, ProceedTypes
<1>2. CASE Refill \/ OpenTimeout
  <2>1. tokens' \in 0 .. MaxTokens
    BY <1>2, CloudAssumption DEF Refill, OpenTimeout, CloudTypeOK
  <2> QED
    BY <1>2, <2>1 DEF Refill, OpenTimeout, CloudTypeOK, breakerVars, budgetVars
<1>3. CASE DayPasses \/ ServiceChanges \/ UNCHANGED cloudVars
  BY <1>3 DEF DayPasses, ServiceChanges, cloudVars, CloudTypeOK, breakerVars, budgetVars
<1> QED
  BY <1>1, <1>2, <1>3 DEF Next

LEMMA CloudTypesInit == Init => CloudTypeOK
<1> SUFFICES ASSUME Init PROVE CloudTypeOK
  OBVIOUS
<1>1. call \in [Callers -> Calls]
  BY DEF Init, Calls
<1>2. spent \in 0 .. DailyLimit /\ spent <= CostLimit /\ tokens \in 0 .. MaxTokens
  BY CloudAssumption DEF Init
<1>3. /\ state = "CLOSED" /\ failCount = 0 /\ timedOut = TRUE /\ dayOver = FALSE
      /\ sent = 0 /\ carried = 0 /\ healthy \in BOOLEAN
  BY DEF Init
<1>4. failCount \in 0 .. Trip /\ sent \in Nat /\ carried \in Nat
  BY <1>3 DEF Trip
<1> QED
  BY <1>1, <1>2, <1>3, <1>4 DEF CloudTypeOK

\* No limit of the budget is passed and no token is handed out that is not
\* there, whatever the number of callers.
THEOREM CloudTypes == Spec => []CloudTypeOK
  BY CloudTypesInit, CloudTypesStep, PTL DEF Spec

\* When no call gains a request, the requests to come are no more.
LEMMA PendingShrinks ==
  ASSUME CloudTypeOK, CloudTypeOK',
         \A d \in Callers : Left(d)' <= Left(d)
  PROVE  Pending' \subseteq Pending /\ Cardinality(Pending') <= Cardinality(Pending)
<1>1. ASSUME NEW d \in Callers
      PROVE  Left(d) \in 0 .. Attempts /\ Left(d)' \in 0 .. Attempts
  <2>1. call[d] \in Calls /\ call'[d] \in Calls
    BY DEF CloudTypeOK
  <2> QED
    BY <2>1, CallFields, CloudAssumption DEF Left
<1>2. Pending' \subseteq Pending
  <2> SUFFICES ASSUME NEW x \in Callers \X (1 .. Attempts), x[2] <= Left(x[1])'
               PROVE  x[2] <= Left(x[1])
    BY DEF Pending
  <2>1. x[1] \in Callers /\ x[2] \in Int
    BY CloudAssumption
  <2>2. Left(x[1])' <= Left(x[1])
    BY <2>1
  <2>3. Left(x[1]) \in Int /\ Left(x[1])' \in Int
    BY <1>1, <2>1, CloudAssumption
  <2> HIDE DEF Left
  <2> QED
    BY <2>1, <2>2, <2>3
<1> QED
  BY <1>2, PendingFinite, FS_Subset

\* A call that is charged adds its attempts to those to come; at the reset of
\* the day the calls under way are all that is left to come.
LEMMA ChargePaid ==
  ASSUME PaidInv, CloudTypeOK', NEW c \in Callers, CheckBudgetBeforeCall(c)
  PROVE  PaidInv'
<1> DEFINE Mine == {c} \X (1 .. Attempts)
<1>1. CloudTypeOK /\ call \in [Callers -> Calls] /\ Charged \in Calls
  BY DEF PaidInv, CloudTypeOK, Calls
<1>2. /\ call[c].pc = "idle" /\ call'[c] = Charged
      /\ \A d \in Callers \ {c} : call'[d] = call[d]
  BY <1>1, GoesOn DEF CheckBudgetBeforeCall
<1>3. \A d \in Callers \ {c} : Left(d)' = Left(d)
  BY <1>2 DEF Left
<1>4. Attempts \in Nat /\ spent \in Nat /\ sent \in Nat /\ carried \in Nat
  BY <1>1, CloudAssumption DEF CloudTypeOK
<1>5. IsFiniteSet(1 .. Attempts) /\ Cardinality(1 .. Attempts) = Attempts
  BY FS_Interval, <1>4
<1>6. Cardinality(Pending)' \in Nat
  <2>1. CloudTypeOK' /\ IsFiniteSet(Pending')
    <3>1. Pending' \subseteq Callers \X (1 .. Attempts)
      BY DEF Pending
    <3>2. IsFiniteSet(Callers \X (1 .. Attempts))
      BY <1>5, FS_Product, CloudAssumption
    <3> QED
      BY <3>1, <3>2, FS_Subset
  <2> QED
    BY <2>1, FS_CardinalityType
<1>7. CASE dayOver
  <2> DEFINE All == (UnderWay \cup {c}) \X (1 .. Attempts)
  <2>1. IsFiniteSet(UnderWay) /\ c \notin UnderWay
    <3>1. UnderWay \in SUBSET Callers
      BY DEF UnderWay
    <3> QED
      BY <3>1, <1>2, FS_Subset, CloudAssumption DEF UnderWay
  <2>2. /\ IsFiniteSet(UnderWay \cup {c})
        /\ Cardinality(UnderWay \cup {c}) = Cardinality(UnderWay) + 1
    BY <2>1, FS_AddElement
  <2>3. IsFiniteSet(All) /\ Cardinality(All) = (Cardinality(UnderWay) + 1) * Attempts
    <3>1. /\ IsFiniteSet(All)
          /\ Cardinality(All) = Cardinality(UnderWay \cup {c}) * Cardinality(1 .. Attempts)
      BY <2>2, <1>5, FS_Product, Zenon
    <3> QED
      BY <3>1, <2>2, <1>5, Zenon
  <2>4. Pending' \subseteq All
    <3> SUFFICES ASSUME NEW d \in Callers, NEW n \in 1 .. Attempts,
                        n <= Left(d)', d # c
                 PROVE  d \in UnderWay
      BY DEF Pending
    <3>1. call[d] \in Calls /\ n <= Left(d)
      BY <1>1, <1>3
    <3>2. call[d].pc # "idle"
      BY <3>1, CallFields DEF Left
    <3> QED
      BY <3>2 DEF UnderWay
  <2>5. Cardinality(Pending)' <= (Cardinality(UnderWay) + 1) * Attempts
    BY <2>3, <2>4, FS_Subset
  <2>6. sent' = 0 /\ spent' = 1 /\ carried' = Cardinality(UnderWay)
    BY <1>7, <1>4 DEF CheckBudgetBeforeCall
  <2>7. Cardinality(UnderWay) \in Nat
    BY <2>1, FS_CardinalityType
  <2>8. sent' + Cardinality(Pending)' <= Attempts * (spent' + carried')
    <3> DEFINE u == Cardinality(UnderWay)
    <3>1. (u + 1) * Attempts = Attempts * (1 + u)
      BY <2>7, <1>4
    <3> QED
      BY <3>1, <1>6, <2>5, <2>6, <2>7, <1>4
  <2> QED
    BY <2>8 DEF PaidInv
<1>8. CASE ~dayOver
  <2>1. IsFiniteSet(Mine) /\ Cardinality(Mine) = Attempts
    <3>1. IsFiniteSet({c}) /\ Cardinality({c}) = 1
      BY FS_Singleton
    <3>2. IsFiniteSet(Mine) /\ Cardinality(Mine) = 1 * Attempts
      <4>1. /\ IsFiniteSet(Mine)
            /\ Cardinality(Mine) = Cardinality({c}) * Cardinality(1 .. Attempts)
        BY <3>1, <1>5, FS_Product, Zenon
      <4> QED
        BY <4>1, <3>1, <1>5, Zenon
    <3> QED
      BY <3>2, <1>4
  <2>2. Pending' \subseteq Pending \cup Mine
    BY <1>3 DEF Pending
  <2>3. IsFiniteSet(Pending) /\ Cardinality(Pending) \in Nat
    BY PendingFinite
  <2>4. /\ IsFiniteSet(Pending \cup Mine)
        /\ Cardinality(Pending \cup Mine)
             = Cardinality(Pending) + Cardinality(Mine) - Cardinality(Pending \cap Mine)
    BY <2>1, <2>3, FS_Union
  <2>5. Cardinality(Pending \cap Mine) \in Nat
    BY <2>1, FS_Intersection, FS_CardinalityType
  <2>6. Cardinality(Pending)' <= Cardinality(Pending \cup Mine)
    BY <2>2, <2>4, FS_Subset
  <2>7. Cardinality(Pending)' <= Cardinality(Pending) + Attempts
    <3> HIDE DEF Mine
    <3> QED
      BY <2>1, <2>3, <2>4, <2>5, <2>6, <1>4, <1>6
  <2>8. sent' = sent /\ spent' = spent + 1 /\ carried' = carried
    BY <1>8 DEF CheckBudgetBeforeCall
  <2>9. Attempts * (spent + 1 + carried) = Attempts * (spent + carried) + Attempts
    BY <1>4
  <2>10. sent + Cardinality(Pending) <= Attempts * (spent + carried)
    BY DEF PaidInv
  <2>11. Attempts * (spent + carried) \in Int
    BY <1>4
  <2>12. sent' + Cardinality(Pending)' <= Attempts * (spent' + carried')
    BY <2>3, <2>7, <2>8, <2>9, <2>10, <2>11, <1>4, <1>6
  <2> QED
    BY <2>12 DEF PaidInv
<1> QED
  BY <1>7, <1>8

\* A request that is sent is one less to come.
LEMMA SendPaid ==
  ASSUME PaidInv, CloudTypeOK', NEW c \in Callers, SendRequest(c) PROVE PaidInv'
<1> DEFINE n == call[c].left
           x == << c, n >>
<1>1. CloudTypeOK /\ call[c] \in Calls /\ call[c].pc = "sending"
  BY DEF PaidInv, CloudTypeOK, SendRequest
<1>2. n \in 1 .. Attempts
  BY <1>1, CloudAssumption DEF Calls, Idle, Charged, Entered, Sending, Ended
<1>3. x \in Pending
  BY <1>1, <1>2, CloudAssumption DEF Pending, Left
<1>4. /\ \A d \in Callers \ {c} : call'[d] = call[d]
      /\ \/ call'[c] = Ended("succeeded")
         \/ call'[c] = Ended("failed")
         \/ n > 1 /\ call'[c] = Sending(n - 1)
  <2>1. Ended("succeeded") \in Calls /\ Ended("failed") \in Calls
    BY DEF Calls
  <2>2. n > 1 => Sending(n - 1) \in Calls
    BY <1>2, CloudAssumption DEF Calls
  <2> QED
    <3>1. CASE Goes(c, "sending", Ended("succeeded"))
      <4>1. /\ \A d \in Callers \ {c} : call'[d] = call[d]
            /\ call'[c] = Ended("succeeded")
        BY <1>1, <2>1, <3>1, GoesOn, Zenon
      <4> QED
        BY <4>1, Zenon
    <3>2. CASE Goes(c, "sending", Ended("failed"))
      <4>1. /\ \A d \in Callers \ {c} : call'[d] = call[d]
            /\ call'[c] = Ended("failed")
        BY <1>1, <2>1, <3>2, GoesOn, Zenon
      <4> QED
        BY <4>1, Zenon
    <3>3. CASE n > 1 /\ Goes(c, "sending", Sending(n - 1))
      BY <1>1, <2>2, <3>3, GoesOn
    <3> QED
      BY <3>1, <3>2, <3>3 DEF SendRequest
<1>5. Left(c)' \in 0 .. n - 1
  BY <1>2, <1>4, CloudAssumption DEF Left, Sending, Ended
<1>6. Pending' \subseteq Pending \ {x}
  <2> SUFFICES ASSUME NEW d \in Callers, NEW m \in 1 .. Attempts, m <= Left(d)'
               PROVE  m <= Left(d) /\ << d, m >> # x
    BY DEF Pending
  <2>1. CASE d = c
    <3>1. Left(c) = n /\ m \in Int /\ m <= n - 1 /\ n \in Int
      BY <1>1, <1>2, <1>5, <2>1, CloudAssumption DEF Left
    <3> QED
      BY <2>1, <3>1
  <2>2. CASE d # c
    BY <1>4, <2>2 DEF Left
  <2> QED
    BY <2>1, <2>2
<1>7. IsFiniteSet(Pending) /\ Cardinality(Pending) \in Nat
  BY PendingFinite
<1>8. IsFiniteSet(Pending \ {x}) /\ Cardinality(Pending \ {x}) = Cardinality(Pending) - 1
  BY <1>3, <1>7, FS_RemoveElement
<1>9. IsFiniteSet(Pending') /\ Cardinality(Pending') <= Cardinality(Pending) - 1
  BY <1>6, <1>8, FS_Subset
<1>10. Cardinality(Pending') \in Nat
  BY <1>9, FS_CardinalityType
<1>11. sent' = sent + 1 /\ spent' = spent /\ carried' = carried
  BY DEF SendRequest
<1>12. sent \in Nat /\ Attempts * (spent + carried) \in Int
  BY <1>1, CloudAssumption DEF CloudTypeOK
<1>13. sent + Cardinality(Pending) <= Attempts * (spent + carried)
  BY DEF PaidInv
<1>14. sent' + Cardinality(Pending') <= Attempts * (spent' + carried')
  BY <1>7, <1>9, <1>10, <1>11, <1>12, <1>13
<1> QED
  BY <1>14 DEF PaidInv

\* Every other step sends nothing, charges nothing and leaves no more to come.
LEMMA RestPaid ==
  ASSUME PaidInv, CloudTypeOK',
         \A d \in Callers : Left(d)' <= Left(d),
         UNCHANGED << sent, spent, carried >>
  PROVE  PaidInv'
<1>1. Cardinality(Pending') <= Cardinality(Pending)
  BY PendingShrinks DEF PaidInv
<1>2. Cardinality(Pending) \in Nat
  BY PendingFinite
<1>3. IsFiniteSet(Pending') /\ Cardinality(Pending') \in Nat
  <2>1. Pending' \subseteq Pending
    BY PendingShrinks DEF PaidInv
  <2> QED
    BY <2>1, PendingFinite, FS_Subset, FS_CardinalityType
<1>4. sent \in Nat /\ Attempts * (spent + carried) \in Int
  BY CloudAssumption DEF CloudTypeOK, PaidInv
<1>5. sent + Cardinality(Pending) <= Attempts * (spent + carried)
  BY DEF PaidInv
<1>6. sent' + Cardinality(Pending') <= Attempts * (spent' + carried')
  BY <1>1, <1>2, <1>3, <1>4, <1>5
<1> QED
  BY <1>6 DEF PaidInv

LEMMA PaidStep == PaidInv /\ [Next]_cloudVars => PaidInv'
<1> SUFFICES ASSUME PaidInv, [Next]_cloudVars PROVE PaidInv'
  OBVIOUS
<1>1. CloudTypeOK /\ CloudTypeOK'
  BY CloudTypesStep DEF PaidInv
<1>2. ASSUME NEW d \in Callers PROVE call[d] \in Calls /\ Left(d) \in 0 .. Attempts
  <2>1. call[d] \in Calls
    BY <1>1 DEF CloudTypeOK
  <2> QED
    BY <2>1, CallFields, CloudAssumption DEF Left
<1>3. ASSUME NEW c \in Callers, NEW from, NEW to \in Calls, Goes(c, from, to),
             IF to.pc \in {"charged", "entered"} THEN from \in {"charged", "entered"}
             ELSE to.left = 0 \/ from \in {"charged", "entered"},
             UNCHANGED << sent, spent, carried >>
      PROVE  PaidInv'
  <2>1. /\ call[c].pc = from /\ call'[c] = to
        /\ \A d \in Callers \ {c} : call'[d] = call[d]
    BY <1>1, <1>3, GoesOn
  <2>2. to.left \in 0 .. Attempts
    BY CallFields
  <2>3. Left(c)' <= Left(c)
    BY <1>2, <1>3, <2>1, <2>2, CloudAssumption DEF Left
  <2>4. \A d \in Callers : Left(d) <= Left(d)
    BY <1>2, CloudAssumption
  <2>5. \A d \in Callers \ {c} : Left(d)' = Left(d)
    BY <2>1 DEF Left
  <2>6. \A d \in Callers : Left(d)' <= Left(d)
    BY <2>3, <2>4, <2>5
  <2> QED
    BY <1>1, <1>3, <2>6, RestPaid
<1>4. ASSUME NEW c \in Callers, CheckBudgetBeforeCall(c) PROVE PaidInv'
  BY <1>1, <1>4, ChargePaid
<1>5. ASSUME NEW c \in Callers, SendRequest(c) PROVE PaidInv'
  BY <1>1, <1>5, SendPaid
<1>6. ASSUME NEW c \in Callers, Refused(c) \/ Enter(c) \/ Succeed(c) \/ Fail(c)
      PROVE  PaidInv'
  <2>1. Idle \in Calls /\ Entered \in Calls
    BY DEF Calls
  <2>2. \/ Goes(c, "charged", Idle) \/ Goes(c, "charged", Entered)
        \/ Goes(c, "succeeded", Idle) \/ Goes(c, "failed", Idle)
    BY <1>6 DEF Refused, Enter, Succeed, Fail
  <2>3. UNCHANGED << sent, spent, carried >>
    BY <1>6 DEF Refused, Enter, Succeed, Fail, budgetVars
  <2>4. Idle.left = 0 /\ Idle.pc = "idle" /\ Entered.pc = "entered"
    BY DEF Idle, Entered
  <2> QED
    BY <2>1, <2>2, <2>3, <2>4, <1>3
<1>7. ASSUME NEW c \in Callers, AllowTokenCheck(c) PROVE PaidInv'
  <2>1. Sending(Attempts) \in Calls /\ Ended("failed") \in Calls
    BY CloudAssumption DEF Calls
  <2>2. Goes(c, "entered", Sending(Attempts)) \/ Goes(c, "entered", Ended("failed"))
    BY <1>7 DEF AllowTokenCheck
  <2>3. UNCHANGED << sent, spent, carried >>
    BY <1>7 DEF AllowTokenCheck, budgetVars
  <2>4. Sending(Attempts).pc = "sending" /\ Ended("failed").pc = "failed"
    BY DEF Sending, Ended
  <2> QED
    BY <2>1, <2>2, <2>3, <2>4, <1>3
<1>8. CASE Refill \/ OpenTimeout \/ DayPasses \/ ServiceChanges \/ UNCHANGED cloudVars
  <2>1. UNCHANGED << call, sent, spent, carried >>
    BY <1>8 DEF Refill, OpenTimeout, DayPasses, ServiceChanges, cloudVars, budgetVars
  <2>2. \A d \in Callers : Left(d)' = Left(d)
    BY <2>1 DEF Left
  <2>3. \A d \in Callers : Left(d)' <= Left(d)
    BY <1>2, <2>2, CloudAssumption
  <2> QED
    BY <1>1, <2>1, <2>3, RestPaid
<1> QED
  BY <1>4, <1>5, <1>6, <1>7, <1>8 DEF Next, Proceed

\* However calls outlive the reset of the day, at most the wanted number of
\* requests leaves for each call that was charged or carried over.
THEOREM SentPaid == Spec => []SentIsPaid
<1>1. Init => PaidInv
  <2> SUFFICES ASSUME Init PROVE PaidInv
    OBVIOUS
  <2>1. CloudTypeOK
    BY CloudTypesInit
  <2>2. \A d \in Callers : Left(d) = 0
    BY DEF Init, Left, Idle
  <2>3. Pending = {}
    BY <2>2, CloudAssumption DEF Pending
  <2>4. sent = 0 /\ spent = 0 /\ carried = 0 /\ Cardinality(Pending) = 0
    BY <2>3, FS_EmptySet DEF Init
  <2>5. sent + Cardinality(Pending) <= Attempts * (spent + carried)
    BY <2>4, CloudAssumption
  <2> QED
    BY <2>1, <2>5 DEF PaidInv
<1>2. PaidInv => SentIsPaid
  <2> SUFFICES ASSUME PaidInv PROVE SentIsPaid
    OBVIOUS
  <2>1. sent \in Nat /\ Attempts * (spent + carried) \in Int
    BY CloudAssumption DEF PaidInv, CloudTypeOK
  <2> QED
    BY <2>1, PendingFinite DEF PaidInv, SentIsPaid
<1> QED
  BY <1>1, <1>2, PaidStep, PTL DEF Spec
===============================================================================
